---- MODULE Spec2Model ----
(***************************************************************************)
(* Worker pool of dnakolan/worker-pool-service (internal/pool): the        *)
(* bounded job queue, the worker loops, the result processor, the job map  *)
(* and the cancellation context, as a state machine.                       *)
(*                                                                         *)
(* Go semantics the model follows:                                         *)
(*  - a select picks any one of its ready cases; its default case runs     *)
(*    only when no case is ready; with no default and nothing ready the    *)
(*    goroutine parks and is woken by the first event that serves one of   *)
(*    its cases (a parked goroutine woken by a close never takes a later   *)
(*    send, and the reverse);                                              *)
(*  - a send finds a parked receiver before it uses the buffer, so a       *)
(*    channel of capacity 0 passes a value only to a parked receiver;      *)
(*  - the job map holds pointers: SubmitJob, the worker and every reader   *)
(*    share ONE Job object per job, so a field the worker assigns is       *)
(*    visible through the map at once, lock or no lock.                    *)
(***************************************************************************)
EXTENDS Integers, Sequences, FiniteSets, TLC

\* ---------------------------------------------------------------- bounds
MaxJobs == 2
MaxWorkers == 2
MaxPoolSize == 1
MaxKindJobs == 1
MaxNumber == 4
MaxReaders == 2
OrderPoolSize == 2

JobIds == 1..MaxJobs
WorkerIds == 1..MaxWorkers
ReaderIds == 1..MaxReaders

\* ------------------------------------------------------------ data model
JobStatusPending == "pending"
JobStatusRunning == "running"
JobStatusCompleted == "completed"
JobStatusFailed == "failed"

NilTime == 0
Stamped == 1

SleepJobPayload(d) == [kind |-> "sleep", Duration |-> d, Number |-> 0]
MathJobPayload(n) == [kind |-> "math", Duration |-> "", Number |-> n]

NilResult == [kind |-> "nil", SleptFor |-> "", Result |-> 0]
SleepJobResult(s) == [kind |-> "sleep", SleptFor |-> s, Result |-> 0]
MathJobResult(n) == [kind |-> "math", SleptFor |-> "", Result |-> n]

ErrQueueFull == "job queue is full"
ErrCanceled == "context canceled"
ErrSleepPayload == "invalid sleep payload type"
ErrMathPayload == "invalid math payload type"
\* fmt.Errorf("invalid duration: %w", err) around the error of
\* time.ParseDuration, which quotes the string it was given.
ErrDuration(s) == "invalid duration: time: invalid duration \"" \o s \o "\""
ErrUnknownType == "unknown job type"
NoError == ""

\* The (Type, Payload) pairs a caller hands to SubmitJob: a sleep job that
\* sleeps, a math job that completes, a sleep job that fails.
JobInputs ==
    { [Type |-> "sleep", Payload |-> SleepJobPayload("100ms")],
      [Type |-> "math", Payload |-> MathJobPayload(4)],
      [Type |-> "sleep", Payload |-> SleepJobPayload("bad")] }

\* A wider range of (Type, Payload) pairs: every math input of a bounded
\* range, durations whose printed form differs from the requested string, a
\* duration that does not parse, payloads that do not match the declared
\* type, and a type that is neither sleep nor math.
KindInputs ==
    { [Type |-> "math", Payload |-> MathJobPayload(n)] : n \in -1..MaxNumber }
    \cup { [Type |-> "sleep", Payload |-> SleepJobPayload(d)] :
               d \in {"100ms", "1000ms", "60s", "0s", "bad"} }
    \cup { [Type |-> "math", Payload |-> SleepJobPayload("100ms")],
            [Type |-> "sleep", Payload |-> MathJobPayload(4)],
            [Type |-> "invalid", Payload |-> SleepJobPayload("100ms")],
            [Type |-> "invalid", Payload |-> MathJobPayload(1)] }

\* Jobs that fail in each of the ways executeJob can fail at once, and one
\* that completes.
FailInputs ==
    { [Type |-> "sleep", Payload |-> SleepJobPayload("bad")],
      [Type |-> "math", Payload |-> SleepJobPayload("100ms")],
      [Type |-> "sleep", Payload |-> MathJobPayload(4)],
      [Type |-> "invalid", Payload |-> MathJobPayload(1)],
      [Type |-> "math", Payload |-> MathJobPayload(4)] }

\* The Job a caller builds before SubmitJob: status pending, nothing else set.
NewJob(uid, in) ==
    [UID |-> uid, Type |-> in.Type, Payload |-> in.Payload,
     Status |-> JobStatusPending, Result |-> NilResult, Error |-> NoError,
     StartedAt |-> NilTime, CompletedAt |-> NilTime]

VARIABLES
    numWorkers,        \* p.numWorkers
    poolSize,          \* capacity of jobQueue and of resultQueue
    jobQueue,          \* buffer of p.jobQueue: sequence of job pointers
    jobQueueClosed,
    resultQueue,       \* buffer of p.resultQueue
    resultQueueClosed,
    quit,              \* TRUE once p.quit is closed
    ctxDone,           \* TRUE once p.ctx is cancelled
    jobs,              \* p.jobs: UID -> job pointer
    job,               \* the heap: job pointer -> Job object
    nextId,            \* the next job a caller creates
    sub,               \* job pointer -> state of the SubmitJob call made with it
    started,           \* Start() has run
    wg,                \* p.wg counter
    wpc, wjob, wout,   \* per worker: position, job pointer, (result, err)
    timer,             \* per worker: the time.After timer of its sleep job
    spc, sjob,         \* result processor: position, job pointer
    stopPc,            \* position of the Stop() call
    cancelledMidSleep, \* history: the sleep jobs that were running, their
                       \* duration not elapsed, when p.ctx was cancelled
    req,               \* the list request ListJobsHandler is serving
    mu,                \* p.jobsMutex: who holds it and who waits in Lock()
    rd,                \* per reader: position of its GetJob / GetAllJobs call
    sink2              \* the result processor of a second Start(): position,
                       \* job pointer

\* What the steps of the pool that do not call storeJob, GetJob or
\* GetAllJobs never touch.
aux == << req, mu, rd, sink2 >>

vars == << numWorkers, poolSize, jobQueue, jobQueueClosed, resultQueue,
           resultQueueClosed, quit, ctxDone, jobs, job, nextId, sub, started,
           wg, wpc, wjob, wout, timer, spc, sjob, stopPc, cancelledMidSleep,
           req, mu, rd, sink2 >>

NoJob == 0

\* A sync.RWMutex nobody holds, and a reader that has made no call.
Unlocked ==
    [writers |-> {}, readers |-> {}, waiting |-> {}, pending |-> {},
     blocked |-> {}]
NoRead ==
    [pc |-> "idle", op |-> "none", id |-> NoJob, ft |-> "", fs |-> "",
     todo |-> {}, acc |-> {}, answers |-> {}]

\* A result processor that no Start() has launched.
NoSink == [pc |-> "off", job |-> NoJob, behind |-> FALSE]
NoOutcome == [result |-> NilResult, err |-> NoError]

\* ------------------------------------------------------- list requests
\* A query parameter that the URL does not have, and a nil pointer of a
\* JobFilter; url.Values.Get gives "" for a parameter that is absent.
Absent == "(absent)"
NilPtr == "(nil)"
Get(query, key) == IF query[key] = Absent THEN "" ELSE query[key]

\* The queries of the list requests: type and status each absent, empty,
\* valid or not.
Queries ==
    [type : {Absent, "", "sleep", "math", "invalid"},
     status : {Absent, "", JobStatusPending, JobStatusRunning,
               JobStatusCompleted, JobStatusFailed, "bogus"}]

IsValidJobStatus(st) ==
    st \in {JobStatusPending, JobStatusRunning, JobStatusCompleted, JobStatusFailed}

ErrUnsupportedType == "unsupported job type"
ErrEmptyStatus == "status cannot be empty"
\* A nil *JobFilter.
NilFilter == [nil |-> TRUE]

\* fmt.Errorf("invalid status: %s", ...): the text names the rejected value.
ErrInvalidStatus(st) == "invalid status: " \o st

\* JobFilter.Validate: the error, NoError for nil.  A nil receiver is valid.
Validate(f) ==
    IF f = NilFilter
    THEN NoError
    ELSE IF f.Type # NilPtr /\ f.Type # "math" /\ f.Type # "sleep"
    THEN ErrUnsupportedType
    ELSE IF f.Status # NilPtr /\ f.Status = ""
    THEN ErrEmptyStatus
    ELSE IF f.Status # NilPtr /\ ~IsValidJobStatus(f.Status)
    THEN ErrInvalidStatus(f.Status)
    ELSE NoError

\* parseFilter: the filter built from the query and the error, if any; a
\* rejected query returns a nil filter with its error.
parseFilter(query) ==
    LET typeStr == Get(query, "type")
        statusStr == Get(query, "status")
        jobType == IF typeStr # "" THEN typeStr ELSE NilPtr
        jobStatus == IF statusStr # "" THEN statusStr ELSE NilPtr
        filter == [Type |-> jobType, Status |-> jobStatus]
    IN  IF statusStr # "" /\ ~IsValidJobStatus(statusStr)
        THEN [filter |-> NilFilter, err |-> ErrInvalidStatus(statusStr)]
        ELSE IF Validate(filter) # NoError
        THEN [filter |-> NilFilter, err |-> Validate(filter)]
        ELSE [filter |-> filter, err |-> NoError]

NoList == {}
NoRequest ==
    [pc |-> "idle", query |-> [type |-> Absent, status |-> Absent],
     filter |-> NilFilter, err |-> NoError,
     listed |-> NoList]

\* --------------------------------------------------------- construction
Init ==
    /\ numWorkers \in 0..MaxWorkers
    /\ poolSize \in 0..MaxPoolSize
    /\ jobQueue = << >>
    /\ jobQueueClosed = FALSE
    /\ resultQueue = << >>
    /\ resultQueueClosed = FALSE
    /\ quit = FALSE
    /\ ctxDone = FALSE
    /\ jobs = << >>
    /\ job = << >>
    /\ nextId = 1
    /\ sub = << >>
    /\ started = FALSE
    /\ wg = 0
    /\ wpc = [w \in WorkerIds |-> "off"]
    /\ wjob = [w \in WorkerIds |-> NoJob]
    /\ wout = [w \in WorkerIds |-> NoOutcome]
    /\ timer = [w \in WorkerIds |-> "off"]
    /\ spc = "off"
    /\ sjob = NoJob
    /\ stopPc = "none"
    /\ cancelledMidSleep = {}
    /\ req = NoRequest
    /\ mu = Unlocked
    /\ rd = [r \in ReaderIds |-> NoRead]
    /\ sink2 = NoSink


\* ------------------------------------------------------------- helpers
\* m[k] = v, the key added when absent (a Go map assignment).
Put(m, k, v) == [x \in (DOMAIN m) \cup {k} |-> IF x = k THEN v ELSE m[x]]

\* Mutant of ParseDuration: a string that is no duration parses as zero.
ParseDuration_Lenient(s) ==
    CASE s = "100ms" -> [ok |-> TRUE, d |-> 100]
      [] s = "5s" -> [ok |-> TRUE, d |-> 5000]
      [] s = "1000ms" -> [ok |-> TRUE, d |-> 1000]
      [] s = "1s" -> [ok |-> TRUE, d |-> 1000]
      [] s = "60s" -> [ok |-> TRUE, d |-> 60000]
      [] s = "1m0s" -> [ok |-> TRUE, d |-> 60000]
      [] OTHER -> [ok |-> TRUE, d |-> 0]

\* time.ParseDuration on the duration strings the model submits: the parsed
\* duration in milliseconds, or an error.
ParseDuration(s) ==
    CASE s = "100ms" -> [ok |-> TRUE, d |-> 100]
      [] s = "5s" -> [ok |-> TRUE, d |-> 5000]
      [] s = "0s" -> [ok |-> TRUE, d |-> 0]
      [] s = "1000ms" -> [ok |-> TRUE, d |-> 1000]
      [] s = "1s" -> [ok |-> TRUE, d |-> 1000]
      [] s = "60s" -> [ok |-> TRUE, d |-> 60000]
      [] s = "1m0s" -> [ok |-> TRUE, d |-> 60000]
      [] OTHER -> [ok |-> FALSE, d |-> 0]

\* Mutant of DurationString: the duration truncated to whole seconds.
DurationString_Seconds(d) ==
    CASE d = 5000 -> "5s"
      [] d = 1000 -> "1s"
      [] d = 60000 -> "1m0s"
      [] OTHER -> "0s"

\* time.Duration.String on those durations.
DurationString(d) ==
    CASE d = 100 -> "100ms"
      [] d = 5000 -> "5s"
      [] d = 1000 -> "1s"
      [] d = 60000 -> "1m0s"
      [] OTHER -> "0s"

\* Mutant of SumBelow: the loop runs to n inclusive.
SumBelow_Inclusive(n) == IF n <= 0 THEN 0 ELSE (n * (n + 1)) \div 2

\* result := 0; for i := 0; i < n; i++ { result += i }
RECURSIVE SumBelow(_)
SumBelow(n) == IF n <= 0 THEN 0 ELSE (n - 1) + SumBelow(n - 1)

Return(result, err) ==
    [wait |-> FALSE, d |-> 0, out |-> [result |-> result, err |-> err]]

\* Mutant of executeJob: the payload's type is not checked, a payload of
\* the other type reads as the zero value.
executeJob_Unchecked(jb) ==
    CASE jb.Type = "sleep" ->
           LET p == ParseDuration(jb.Payload.Duration) IN
           IF ~p.ok
           THEN Return(NilResult, ErrDuration(jb.Payload.Duration))
           ELSE [wait |-> TRUE, d |-> p.d, out |-> NoOutcome]
      [] jb.Type = "math" ->
           Return(MathJobResult(SumBelow(jb.Payload.Number)), NoError)
      [] OTHER -> Return(NilResult, ErrUnknownType)

\* Mutant of executeJob: the default case returns no error.
executeJob_DefaultOk(jb) ==
    CASE jb.Type = "sleep" ->
           IF jb.Payload.kind # "sleep"
           THEN Return(NilResult, ErrSleepPayload)
           ELSE LET p == ParseDuration(jb.Payload.Duration) IN
                IF ~p.ok
                THEN Return(NilResult, ErrDuration(jb.Payload.Duration))
                ELSE [wait |-> TRUE, d |-> p.d, out |-> NoOutcome]
      [] jb.Type = "math" ->
           IF jb.Payload.kind # "math"
           THEN Return(NilResult, ErrMathPayload)
           ELSE Return(MathJobResult(SumBelow(jb.Payload.Number)), NoError)
      [] OTHER -> Return(NilResult, NoError)

\* executeJob up to its select: what it returns at once, or the duration it
\* goes on to wait for.
executeJob(jb) ==
    CASE jb.Type = "sleep" ->
           IF jb.Payload.kind # "sleep"
           THEN Return(NilResult, ErrSleepPayload)
           ELSE LET p == ParseDuration(jb.Payload.Duration) IN
                IF ~p.ok
                THEN Return(NilResult, ErrDuration(jb.Payload.Duration))
                ELSE [wait |-> TRUE, d |-> p.d, out |-> NoOutcome]
      [] jb.Type = "math" ->
           IF jb.Payload.kind # "math"
           THEN Return(NilResult, ErrMathPayload)
           ELSE Return(MathJobResult(SumBelow(jb.Payload.Number)), NoError)
      [] OTHER -> Return(NilResult, ErrUnknownType)

\* The two outcomes of executeJob's select.
SleptOutcome(jb) ==
    [result |-> SleepJobResult(DurationString(ParseDuration(jb.Payload.Duration).d)),
     err |-> NoError]
CanceledOutcome == [result |-> NilResult, err |-> ErrCanceled]

\* Mutant of FinalStatus: a job without error keeps the running status.
FinalStatus_StaysRunning(err) ==
    IF err # NoError THEN JobStatusFailed ELSE JobStatusRunning

\* processJob: the status that goes with executeJob's error.
FinalStatus(err) ==
    IF err # NoError THEN JobStatusFailed ELSE JobStatusCompleted

\* Mutant of storeJob: the map assignment left out.
storeJob_Skip(j) == jobs

\* Mutant of storeJob: the map is replaced by one holding this job alone.
storeJob_Replace(j) == [k \in {job[j].UID} |-> j]

\* storeJob: p.jobs[job.UID.String()] = job, under the write lock.
storeJob(j) == Put(jobs, job[j].UID, j)

\* GetJob: the pointer in the map and whether the key exists.
GetJob(id) ==
    IF id \in DOMAIN jobs
    THEN [job |-> jobs[id], exists |-> TRUE]
    ELSE [job |-> NoJob, exists |-> FALSE]

\* GetAllJobs, the body of its loop: job record v passes both tests of the
\* filter (ftype, fstatus: "" when nil) and is appended.
Keeps(v, ftype, fstatus) ==
    /\ (ftype = "" \/ ftype = v.Type)
    /\ (fstatus = "" \/ fstatus = v.Status)

\* The pointers the loop of GetAllJobs appends when it runs over map m with
\* the job objects as heap has them, no field written meanwhile.
WouldList(m, heap, ftype, fstatus) ==
    { m[k] : k \in { k \in DOMAIN m : Keeps(heap[m[k]], ftype, fstatus) } }

\* GetAllJobs with its loop run in one state: the pointers the filter keeps
\* (ftype, fstatus: "" when nil). The read lock keeps the map as it is during
\* the loop and Type is never written, so this is the list of a call without
\* a Status predicate and of a call that no worker overlaps; a call with a
\* Status predicate beside running workers is ReadVisit, entry by entry.
GetAllJobs(ftype, fstatus) ==
    { jobs[k] : k \in { k \in DOMAIN jobs :
          Keeps(job[jobs[k]], ftype, fstatus) } }

\* The GetAllJobs calls inside their read lock note the list their filter
\* gives with the job objects as heap has them.
Noted(heap) ==
    [r \in ReaderIds |->
       IF rd[r].pc = "in" /\ rd[r].op = "list"
       THEN [rd[r] EXCEPT !.answers =
                @ \cup {WouldList(jobs, heap, rd[r].ft, rd[r].fs)}]
       ELSE rd[r]]

\* ------------------------------------------------- channel readiness
\* Workers parked in the worker loop's select that a send can still wake.
ParkedWorkers ==
    IF quit \/ ctxDone THEN {} ELSE { w \in WorkerIds : wpc[w] = "parked" }

\* Workers parked in processJob's select that a receive can still wake.
ParkedSenders ==
    IF ctxDone THEN {} ELSE { w \in WorkerIds : wpc[w] = "send_parked" }

\* The result processor is parked in its select and a send can still wake it.
SinkParked == spc = "parked" /\ ~quit /\ ~ctxDone

\* The result processor of a second Start() is parked in its select and a
\* send can still wake it.
Sink2Parked == sink2.pc = "parked" /\ ~quit /\ ~ctxDone

\* Mutant of JobQueueHasRoom: the capacity test off by one.
JobQueueHasRoom_OffByOne == Len(jobQueue) <= poolSize

JobQueueHasRoom == Len(jobQueue) < poolSize
ResultQueueHasRoom == Len(resultQueue) < poolSize

\* Mutant of JobSendReady: the send case is always ready.
JobSendReady_Always == TRUE

\* case p.jobQueue <- job can proceed (on a closed channel it proceeds to a panic).
JobSendReady == jobQueueClosed \/ ParkedWorkers # {} \/ JobQueueHasRoom

\* The ready cases of SubmitJob's select.
SubmitReady(callerDone) ==
    (IF JobSendReady THEN {"send"} ELSE {})
    \cup (IF callerDone THEN {"ctx"} ELSE {})
    \cup (IF ctxDone THEN {"p.ctx"} ELSE {})

\* Mutant of SelectOrDefault: the default case competes with the ready ones.
SelectOrDefault_Always(ready) == ready \cup {"default"}

\* A select with a default case: a ready case if there is one, else default.
SelectOrDefault(ready) == IF ready = {} THEN {"default"} ELSE ready

\* Mutant of SubmitEnqueues: the job is queued before the select, so also
\* when the call goes on to report an error.
SubmitEnqueues_Always(c) == ~jobQueueClosed

\* Only the send case puts the job on the queue.
SubmitEnqueues(c) == c = "send" /\ ~jobQueueClosed

\* The state of the SubmitJob call after its select took case c: past the
\* send and about to store, returned with an error, or panicked.
SubmitResult(c) ==
    CASE c = "send" ->
           IF jobQueueClosed
           THEN [pc |-> "panicked", err |-> "send on closed channel"]
           ELSE [pc |-> "sent", err |-> NoError]
      [] c = "ctx" -> [pc |-> "returned", err |-> ErrCanceled]
      [] c = "p.ctx" -> [pc |-> "returned", err |-> ErrCanceled]
      [] OTHER -> [pc |-> "returned", err |-> ErrQueueFull]

\* ------------------------------------------------------------ SubmitJob
\* A caller builds job nextId from `in` and calls SubmitJob with a context
\* that is already done or not: the select.
Submit(in, callerDone) ==
    /\ nextId <= MaxJobs
    /\ nextId' = nextId + 1
    /\ job' = Put(job, nextId, NewJob(nextId, in))
    /\ \E c \in SelectOrDefault(SubmitReady(callerDone)) :
         /\ sub' = Put(sub, nextId, SubmitResult(c))
         /\ IF SubmitEnqueues(c)
            THEN IF ParkedWorkers # {}
                 THEN /\ \E w \in ParkedWorkers :
                           /\ wpc' = [wpc EXCEPT ![w] = "p_status"]
                           /\ wjob' = [wjob EXCEPT ![w] = nextId]
                      /\ UNCHANGED jobQueue
                 ELSE /\ jobQueue' = Append(jobQueue, nextId)
                      /\ UNCHANGED << wpc, wjob >>
            ELSE UNCHANGED << jobQueue, wpc, wjob >>
    /\ UNCHANGED << aux, numWorkers, poolSize, jobQueueClosed, resultQueue,
                    resultQueueClosed, quit, ctxDone, jobs, started, wg, wout,
                    timer, spc, sjob, stopPc, cancelledMidSleep >>

\* SubmitJob after a successful send: the map assignment of storeJob(job),
\* return nil.
SubmitStorePut(j) ==
    /\ j \in DOMAIN sub
    /\ sub[j].pc = "sent"
    /\ jobs' = storeJob(j)
    /\ sub' = [sub EXCEPT ![j].pc = "returned"]
    /\ UNCHANGED << numWorkers, poolSize, jobQueue, jobQueueClosed, resultQueue,
                    resultQueueClosed, quit, ctxDone, job, nextId, started, wg,
                    wpc, wjob, wout, timer, spc, sjob, stopPc,
                    cancelledMidSleep >>

\* SubmitJob after a successful send: storeJob(job) as one step, return nil.
SubmitStore(j) == SubmitStorePut(j) /\ UNCHANGED aux

\* ---------------------------------------------------------------- Start
\* Start(): numWorkers worker goroutines and one resultProcessor, each counted
\* in p.wg. It is called once, before Stop().
Start ==
    /\ ~started
    /\ stopPc = "none"
    /\ started' = TRUE
    /\ wpc' = [w \in WorkerIds |-> IF w <= numWorkers THEN "select" ELSE "off"]
    /\ spc' = "select"
    /\ wg' = wg + numWorkers + 1
    /\ UNCHANGED << aux, numWorkers, poolSize, jobQueue, jobQueueClosed, resultQueue,
                    resultQueueClosed, quit, ctxDone, jobs, job, nextId, sub,
                    wjob, wout, timer, sjob, stopPc, cancelledMidSleep >>

\* --------------------------------------------------------------- worker
\* The ready cases of the worker loop's select.
WorkerReady ==
    (IF Len(jobQueue) > 0 THEN {"job"} ELSE {})
    \cup (IF quit THEN {"quit"} ELSE {})
    \cup (IF ctxDone THEN {"ctx"} ELSE {})

\* Mutant of Dequeue: the received job stays in the buffer.
Dequeue_Keep(q) == q

\* What the worker's receive leaves in the job queue's buffer.
Dequeue(q) == Tail(q)

\* Mutant of Receive: the receive takes the job sent last.
Receive_Last(q) == q[Len(q)]

\* The job a receive takes from a channel's buffer: the one sent first.
Receive(q) == Head(q)

\* The worker loop's select with a case ready: receive a job, or return.
WorkerSelect(w) ==
    /\ wpc[w] = "select"
    /\ \E c \in WorkerReady :
         \/ /\ c = "job"
            /\ wjob' = [wjob EXCEPT ![w] = Receive(jobQueue)]
            /\ jobQueue' = Dequeue(jobQueue)
            /\ wpc' = [wpc EXCEPT ![w] = "p_status"]
            /\ UNCHANGED wg
         \/ /\ c # "job"
            /\ wpc' = [wpc EXCEPT ![w] = "exited"]
            /\ wg' = wg - 1
            /\ UNCHANGED << wjob, jobQueue >>
    /\ UNCHANGED << aux, numWorkers, poolSize, jobQueueClosed, resultQueue,
                    resultQueueClosed, quit, ctxDone, jobs, job, nextId, sub,
                    started, wout, timer, spc, sjob, stopPc, cancelledMidSleep >>

\* The worker loop's select with nothing ready: the goroutine parks.
WorkerPark(w) ==
    /\ wpc[w] = "select"
    /\ WorkerReady = {}
    /\ wpc' = [wpc EXCEPT ![w] = "parked"]
    /\ UNCHANGED << aux, numWorkers, poolSize, jobQueue, jobQueueClosed, resultQueue,
                    resultQueueClosed, quit, ctxDone, jobs, job, nextId, sub,
                    started, wg, wjob, wout, timer, spc, sjob, stopPc,
                    cancelledMidSleep >>

\* A parked worker woken by close(p.quit) or by the cancellation: it returns.
WorkerWake(w) ==
    /\ wpc[w] = "parked"
    /\ quit \/ ctxDone
    /\ wpc' = [wpc EXCEPT ![w] = "exited"]
    /\ wg' = wg - 1
    /\ UNCHANGED << aux, numWorkers, poolSize, jobQueue, jobQueueClosed, resultQueue,
                    resultQueueClosed, quit, ctxDone, jobs, job, nextId, sub,
                    started, wjob, wout, timer, spc, sjob, stopPc,
                    cancelledMidSleep >>

\* processJob: job.Status = model.JobStatusRunning, written without the lock
\* under the eyes of the GetAllJobs calls that are in their loop.
ProcStatus(w) ==
    /\ wpc[w] = "p_status"
    /\ job' = [job EXCEPT ![wjob[w]].Status = JobStatusRunning]
    /\ wpc' = [wpc EXCEPT ![w] = "p_started"]
    /\ rd' = Noted(job')
    /\ UNCHANGED << req, mu, sink2, numWorkers, poolSize, jobQueue, jobQueueClosed, resultQueue,
                    resultQueueClosed, quit, ctxDone, jobs, nextId, sub,
                    started, wg, wjob, wout, timer, spc, sjob, stopPc,
                    cancelledMidSleep >>

\* processJob: job.StartedAt = &now
ProcStartedAt(w) ==
    /\ wpc[w] = "p_started"
    /\ job' = [job EXCEPT ![wjob[w]].StartedAt = Stamped]
    /\ wpc' = [wpc EXCEPT ![w] = "p_store"]
    /\ UNCHANGED << aux, numWorkers, poolSize, jobQueue, jobQueueClosed, resultQueue,
                    resultQueueClosed, quit, ctxDone, jobs, nextId, sub,
                    started, wg, wjob, wout, timer, spc, sjob, stopPc,
                    cancelledMidSleep >>

\* processJob: the map assignment of p.storeJob(job), then executeJob(job) up
\* to its return or, for
\* a sleep job with a parsed duration, up to time.After(duration), which arms
\* the timer (executeJob touches nothing shared before its select).
ProcStorePut(w) ==
    /\ wpc[w] = "p_store"
    /\ jobs' = storeJob(wjob[w])
    /\ LET r == executeJob(job[wjob[w]]) IN
         IF r.wait
         THEN /\ timer' = [timer EXCEPT ![w] = IF r.d <= 0 THEN "fired" ELSE "armed"]
              /\ wpc' = [wpc EXCEPT ![w] = "sleep_select"]
              /\ UNCHANGED wout
         ELSE /\ wout' = [wout EXCEPT ![w] = r.out]
              /\ wpc' = [wpc EXCEPT ![w] = "p_completedAt"]
              /\ UNCHANGED timer
    /\ UNCHANGED << numWorkers, poolSize, jobQueue, jobQueueClosed, resultQueue,
                    resultQueueClosed, quit, ctxDone, job, nextId, sub,
                    started, wg, wjob, spc, sjob, stopPc, cancelledMidSleep >>

\* processJob: p.storeJob(job) as one step, and executeJob up to its select.
ProcStore(w) == ProcStorePut(w) /\ UNCHANGED aux

\* The duration elapses. Before the worker has polled its select this only
\* makes the timer case ready; a worker parked in the select is woken with
\* the timer case, unless the cancellation has woken it already.
TimerFire(w) ==
    /\ timer[w] = "armed"
    /\ \/ /\ wpc[w] = "sleep_select"
          /\ UNCHANGED << wpc, wout >>
       \/ /\ wpc[w] = "sleep_parked"
          /\ ~ctxDone
          /\ wout' = [wout EXCEPT ![w] = SleptOutcome(job[wjob[w]])]
          /\ wpc' = [wpc EXCEPT ![w] = "p_completedAt"]
    /\ timer' = [timer EXCEPT ![w] = "fired"]
    /\ UNCHANGED << aux, numWorkers, poolSize, jobQueue, jobQueueClosed, resultQueue,
                    resultQueueClosed, quit, ctxDone, jobs, job, nextId, sub,
                    started, wg, wjob, spc, sjob, stopPc, cancelledMidSleep >>

\* The ready cases of executeJob's select.
SleepReady(w) ==
    (IF timer[w] = "fired" THEN {"timer"} ELSE {})
    \cup (IF ctxDone THEN {"ctx"} ELSE {})

\* executeJob's select with a case ready.
SleepSelect(w) ==
    /\ wpc[w] = "sleep_select"
    /\ \E c \in SleepReady(w) :
         wout' = [wout EXCEPT ![w] = IF c = "timer"
                                      THEN SleptOutcome(job[wjob[w]])
                                      ELSE CanceledOutcome]
    /\ wpc' = [wpc EXCEPT ![w] = "p_completedAt"]
    /\ UNCHANGED << aux, numWorkers, poolSize, jobQueue, jobQueueClosed, resultQueue,
                    resultQueueClosed, quit, ctxDone, jobs, job, nextId, sub,
                    started, wg, wjob, timer, spc, sjob, stopPc,
                    cancelledMidSleep >>

\* executeJob's select with nothing ready: the goroutine parks.
SleepPark(w) ==
    /\ wpc[w] = "sleep_select"
    /\ SleepReady(w) = {}
    /\ wpc' = [wpc EXCEPT ![w] = "sleep_parked"]
    /\ UNCHANGED << aux, numWorkers, poolSize, jobQueue, jobQueueClosed, resultQueue,
                    resultQueueClosed, quit, ctxDone, jobs, job, nextId, sub,
                    started, wg, wjob, wout, timer, spc, sjob, stopPc,
                    cancelledMidSleep >>

\* A worker parked in executeJob's select woken by the cancellation.
SleepWake(w) ==
    /\ wpc[w] = "sleep_parked"
    /\ ctxDone
    /\ wout' = [wout EXCEPT ![w] = CanceledOutcome]
    /\ wpc' = [wpc EXCEPT ![w] = "p_completedAt"]
    /\ UNCHANGED << aux, numWorkers, poolSize, jobQueue, jobQueueClosed, resultQueue,
                    resultQueueClosed, quit, ctxDone, jobs, job, nextId, sub,
                    started, wg, wjob, timer, spc, sjob, stopPc,
                    cancelledMidSleep >>

\* processJob: job.CompletedAt = &completedAt
ProcCompletedAt(w) ==
    /\ wpc[w] = "p_completedAt"
    /\ job' = [job EXCEPT ![wjob[w]].CompletedAt = Stamped]
    /\ wpc' = [wpc EXCEPT ![w] = "p_final_status"]
    /\ UNCHANGED << aux, numWorkers, poolSize, jobQueue, jobQueueClosed, resultQueue,
                    resultQueueClosed, quit, ctxDone, jobs, nextId, sub,
                    started, wg, wjob, wout, timer, spc, sjob, stopPc,
                    cancelledMidSleep >>

\* Mutant of ProcFinalStatus: processJob goes on without the final status.
ProcFinalStatus_Skip(w) ==
    /\ wpc[w] = "p_final_status"
    /\ wpc' = [wpc EXCEPT ![w] = "p_final_field"]
    /\ UNCHANGED << aux, numWorkers, poolSize, jobQueue, jobQueueClosed, resultQueue,
                    resultQueueClosed, quit, ctxDone, jobs, job, nextId, sub,
                    started, wg, wjob, wout, timer, spc, sjob, stopPc,
                    cancelledMidSleep >>

\* processJob: job.Status = model.JobStatusFailed / model.JobStatusCompleted,
\* written without the lock like the first.
ProcFinalStatus(w) ==
    /\ wpc[w] = "p_final_status"
    /\ job' = [job EXCEPT ![wjob[w]].Status = FinalStatus(wout[w].err)]
    /\ wpc' = [wpc EXCEPT ![w] = "p_final_field"]
    /\ rd' = Noted(job')
    /\ UNCHANGED << req, mu, sink2, numWorkers, poolSize, jobQueue, jobQueueClosed, resultQueue,
                    resultQueueClosed, quit, ctxDone, jobs, nextId, sub,
                    started, wg, wjob, wout, timer, spc, sjob, stopPc,
                    cancelledMidSleep >>

\* Mutant of ProcFinalField: an error of executeJob ends the worker.
ProcFinalField_Crash(w) ==
    /\ wpc[w] = "p_final_field"
    /\ job' = IF wout[w].err # NoError
              THEN [job EXCEPT ![wjob[w]].Error = wout[w].err]
              ELSE [job EXCEPT ![wjob[w]].Result = wout[w].result]
    /\ wpc' = [wpc EXCEPT ![w] = IF wout[w].err # NoError THEN "exited" ELSE "p_send"]
    /\ UNCHANGED << aux, numWorkers, poolSize, jobQueue, jobQueueClosed, resultQueue,
                    resultQueueClosed, quit, ctxDone, jobs, nextId, sub,
                    started, wg, wjob, wout, timer, spc, sjob, stopPc,
                    cancelledMidSleep >>

\* processJob: job.Error = err.Error() / job.Result = result
ProcFinalField(w) ==
    /\ wpc[w] = "p_final_field"
    /\ job' = IF wout[w].err # NoError
              THEN [job EXCEPT ![wjob[w]].Error = wout[w].err]
              ELSE [job EXCEPT ![wjob[w]].Result = wout[w].result]
    /\ wpc' = [wpc EXCEPT ![w] = "p_send"]
    /\ UNCHANGED << aux, numWorkers, poolSize, jobQueue, jobQueueClosed, resultQueue,
                    resultQueueClosed, quit, ctxDone, jobs, nextId, sub,
                    started, wg, wjob, wout, timer, spc, sjob, stopPc,
                    cancelledMidSleep >>

\* The ready cases of processJob's select.
SendReady ==
    (IF SinkParked \/ Sink2Parked \/ ResultQueueHasRoom THEN {"send"} ELSE {})
    \cup (IF ctxDone THEN {"ctx"} ELSE {})

\* processJob's select with a case ready: hand the job to a result
\* processor (directly to the one that parked first when one is parked, else
\* into the buffer), or return on the cancellation without sending. Back to
\* the worker loop.
ProcSend(w) ==
    /\ wpc[w] = "p_send"
    /\ \E c \in SendReady :
         \/ /\ c = "send"
            /\ IF SinkParked /\ (~Sink2Parked \/ sink2.behind)
               THEN /\ spc' = "store"
                    /\ sjob' = wjob[w]
                    /\ sink2' = [sink2 EXCEPT !.behind = FALSE]
                    /\ UNCHANGED resultQueue
               ELSE IF Sink2Parked
               THEN /\ sink2' = [pc |-> "store", job |-> wjob[w],
                                 behind |-> FALSE]
                    /\ UNCHANGED << resultQueue, spc, sjob >>
               ELSE /\ resultQueue' = Append(resultQueue, wjob[w])
                    /\ UNCHANGED << spc, sjob, sink2 >>
         \/ /\ c = "ctx"
            /\ UNCHANGED << resultQueue, spc, sjob, sink2 >>
    /\ wpc' = [wpc EXCEPT ![w] = "select"]
    /\ wjob' = [wjob EXCEPT ![w] = NoJob]
    /\ wout' = [wout EXCEPT ![w] = NoOutcome]
    /\ timer' = [timer EXCEPT ![w] = "off"]
    /\ UNCHANGED << req, mu, rd, numWorkers, poolSize, jobQueue, jobQueueClosed,
                    resultQueueClosed, quit, ctxDone, jobs, job, nextId, sub,
                    started, wg, stopPc, cancelledMidSleep >>

\* processJob's select with nothing ready: the goroutine parks on the send.
SendPark(w) ==
    /\ wpc[w] = "p_send"
    /\ SendReady = {}
    /\ wpc' = [wpc EXCEPT ![w] = "send_parked"]
    /\ UNCHANGED << aux, numWorkers, poolSize, jobQueue, jobQueueClosed, resultQueue,
                    resultQueueClosed, quit, ctxDone, jobs, job, nextId, sub,
                    started, wg, wjob, wout, timer, spc, sjob, stopPc,
                    cancelledMidSleep >>

\* A worker parked on the send woken by the cancellation: processJob returns
\* without sending.
SendWake(w) ==
    /\ wpc[w] = "send_parked"
    /\ ctxDone
    /\ wpc' = [wpc EXCEPT ![w] = "select"]
    /\ wjob' = [wjob EXCEPT ![w] = NoJob]
    /\ wout' = [wout EXCEPT ![w] = NoOutcome]
    /\ timer' = [timer EXCEPT ![w] = "off"]
    /\ UNCHANGED << aux, numWorkers, poolSize, jobQueue, jobQueueClosed, resultQueue,
                    resultQueueClosed, quit, ctxDone, jobs, job, nextId, sub,
                    started, wg, spc, sjob, stopPc, cancelledMidSleep >>

\* ------------------------------------------------------ resultProcessor
\* The ready cases of resultProcessor's select.
SinkReady ==
    (IF Len(resultQueue) > 0 \/ ParkedSenders # {} THEN {"job"} ELSE {})
    \cup (IF quit THEN {"quit"} ELSE {})
    \cup (IF ctxDone THEN {"ctx"} ELSE {})

\* resultProcessor's select with a case ready: receive a job (a worker parked
\* on the send is woken, its job taking the freed place), or return.
SinkSelect ==
    /\ spc = "select"
    /\ \E c \in SinkReady :
         \/ /\ c = "job"
            /\ spc' = "store"
            /\ UNCHANGED wg
            /\ IF ParkedSenders = {}
               THEN /\ sjob' = Head(resultQueue)
                    /\ resultQueue' = Tail(resultQueue)
                    /\ UNCHANGED << wpc, wjob, wout, timer >>
               ELSE \E w \in ParkedSenders :
                    /\ IF Len(resultQueue) > 0
                       THEN /\ sjob' = Head(resultQueue)
                            /\ resultQueue' = Append(Tail(resultQueue), wjob[w])
                       ELSE /\ sjob' = wjob[w]
                            /\ UNCHANGED resultQueue
                    /\ wpc' = [wpc EXCEPT ![w] = "select"]
                    /\ wjob' = [wjob EXCEPT ![w] = NoJob]
                    /\ wout' = [wout EXCEPT ![w] = NoOutcome]
                    /\ timer' = [timer EXCEPT ![w] = "off"]
         \/ /\ c # "job"
            /\ spc' = "exited"
            /\ wg' = wg - 1
            /\ UNCHANGED << sjob, resultQueue, wpc, wjob, wout, timer >>
    /\ UNCHANGED << aux, numWorkers, poolSize, jobQueue, jobQueueClosed,
                    resultQueueClosed, quit, ctxDone, jobs, job, nextId, sub,
                    started, stopPc, cancelledMidSleep >>

\* resultProcessor's select with nothing ready: the goroutine parks.
SinkPark ==
    /\ spc = "select"
    /\ SinkReady = {}
    /\ spc' = "parked"
    /\ UNCHANGED << aux, numWorkers, poolSize, jobQueue, jobQueueClosed, resultQueue,
                    resultQueueClosed, quit, ctxDone, jobs, job, nextId, sub,
                    started, wg, wpc, wjob, wout, timer, sjob, stopPc,
                    cancelledMidSleep >>

\* The parked resultProcessor woken by close(p.quit) or by the cancellation.
SinkWake ==
    /\ spc = "parked"
    /\ quit \/ ctxDone
    /\ spc' = "exited"
    /\ wg' = wg - 1
    /\ UNCHANGED << aux, numWorkers, poolSize, jobQueue, jobQueueClosed, resultQueue,
                    resultQueueClosed, quit, ctxDone, jobs, job, nextId, sub,
                    started, wpc, wjob, wout, timer, sjob, stopPc,
                    cancelledMidSleep >>

\* resultProcessor: the map assignment of p.storeJob(job)
SinkStorePut ==
    /\ spc = "store"
    /\ jobs' = storeJob(sjob)
    /\ spc' = "select"
    /\ sjob' = NoJob
    /\ UNCHANGED << numWorkers, poolSize, jobQueue, jobQueueClosed, resultQueue,
                    resultQueueClosed, quit, ctxDone, job, nextId, sub,
                    started, wg, wpc, wjob, wout, timer, stopPc,
                    cancelledMidSleep >>

\* resultProcessor: p.storeJob(job) as one step
SinkStore == SinkStorePut /\ UNCHANGED aux

\* ----------------------------------------------------------- cancellation
\* The sleep jobs whose status is running and whose duration has not elapsed.
RunningSleepers ==
    { wjob[w] : w \in { w \in WorkerIds :
          /\ wpc[w] \in {"p_started", "p_store", "sleep_select", "sleep_parked"}
          /\ timer[w] # "fired"
          /\ executeJob(job[wjob[w]]).wait
          /\ executeJob(job[wjob[w]]).d > 0 } }

\* The context NewWorkerPool derived p.ctx from is cancelled by its owner.
CancelCtx ==
    /\ ~ctxDone
    /\ ctxDone' = TRUE
    /\ cancelledMidSleep' = RunningSleepers
    /\ UNCHANGED << aux, numWorkers, poolSize, jobQueue, jobQueueClosed, resultQueue,
                    resultQueueClosed, quit, jobs, job, nextId, sub, started,
                    wg, wpc, wjob, wout, timer, spc, sjob, stopPc >>

\* ----------------------------------------------------------------- Stop
\* Mutant of StopCancel: Stop goes on to close(p.quit) without p.cancel().
StopCancel_NoCancel ==
    /\ stopPc = "none"
    /\ stopPc' = "cancelled"
    /\ UNCHANGED << aux, numWorkers, poolSize, jobQueue, jobQueueClosed, resultQueue,
                    resultQueueClosed, quit, ctxDone, jobs, job, nextId, sub,
                    started, wg, wpc, wjob, wout, timer, spc, sjob,
                    cancelledMidSleep >>

\* Stop(): p.cancel(). The goroutines of the pool run on before Stop's next
\* statement.
StopCancel ==
    /\ stopPc = "none"
    /\ stopPc' = "cancelled"
    /\ ctxDone' = TRUE
    /\ cancelledMidSleep' = IF ctxDone THEN cancelledMidSleep ELSE RunningSleepers
    /\ UNCHANGED << aux, numWorkers, poolSize, jobQueue, jobQueueClosed, resultQueue,
                    resultQueueClosed, quit, jobs, job, nextId, sub, started,
                    wg, wpc, wjob, wout, timer, spc, sjob >>

\* Stop(): close(p.quit)
StopCloseQuit ==
    /\ stopPc = "cancelled"
    /\ stopPc' = "signalled"
    /\ quit' = TRUE
    /\ UNCHANGED << aux, numWorkers, poolSize, jobQueue, jobQueueClosed, resultQueue,
                    resultQueueClosed, ctxDone, jobs, job, nextId, sub, started,
                    wg, wpc, wjob, wout, timer, spc, sjob, cancelledMidSleep >>

\* Mutant of StopWait: Stop goes on without waiting for the counter.
StopWait_NoWait ==
    /\ stopPc = "signalled"
    /\ stopPc' = "waited"
    /\ UNCHANGED << aux, numWorkers, poolSize, jobQueue, jobQueueClosed, resultQueue,
                    resultQueueClosed, quit, ctxDone, jobs, job, nextId, sub,
                    started, wg, wpc, wjob, wout, timer, spc, sjob,
                    cancelledMidSleep >>

\* Stop(): p.wg.Wait() returns once the counter is zero.
StopWait ==
    /\ stopPc = "signalled"
    /\ wg = 0
    /\ stopPc' = "waited"
    /\ UNCHANGED << aux, numWorkers, poolSize, jobQueue, jobQueueClosed, resultQueue,
                    resultQueueClosed, quit, ctxDone, jobs, job, nextId, sub,
                    started, wg, wpc, wjob, wout, timer, spc, sjob,
                    cancelledMidSleep >>

\* Stop(): close(p.jobQueue)
StopCloseJobQueue ==
    /\ stopPc = "waited"
    /\ stopPc' = "jobQueue_closed"
    /\ jobQueueClosed' = TRUE
    /\ UNCHANGED << aux, numWorkers, poolSize, jobQueue, resultQueue,
                    resultQueueClosed, quit, ctxDone, jobs, job, nextId, sub,
                    started, wg, wpc, wjob, wout, timer, spc, sjob,
                    cancelledMidSleep >>

\* Stop(): close(p.resultQueue), and Stop returns.
StopCloseResultQueue ==
    /\ stopPc = "jobQueue_closed"
    /\ stopPc' = "done"
    /\ resultQueueClosed' = TRUE
    /\ UNCHANGED << aux, numWorkers, poolSize, jobQueue, jobQueueClosed, resultQueue,
                    quit, ctxDone, jobs, job, nextId, sub, started, wg, wpc,
                    wjob, wout, timer, spc, sjob, cancelledMidSleep >>

\* -------------------------------------------------------- specification
WorkerStep(w) ==
    \/ WorkerSelect(w)
    \/ WorkerPark(w)
    \/ WorkerWake(w)
    \/ ProcStatus(w)
    \/ ProcStartedAt(w)
    \/ ProcStore(w)
    \/ SleepSelect(w)
    \/ SleepPark(w)
    \/ SleepWake(w)
    \/ ProcCompletedAt(w)
    \/ ProcFinalStatus(w)
    \/ ProcFinalField(w)
    \/ ProcSend(w)
    \/ SendPark(w)
    \/ SendWake(w)

SinkStep == SinkSelect \/ SinkPark \/ SinkWake \/ SinkStore

StopStep ==
    \/ StopCancel
    \/ StopCloseQuit
    \/ StopWait
    \/ StopCloseJobQueue
    \/ StopCloseResultQueue

Next ==
    \/ \E in \in JobInputs, callerDone \in BOOLEAN : Submit(in, callerDone)
    \/ \E j \in JobIds : SubmitStore(j)
    \/ Start
    \/ \E w \in WorkerIds : WorkerStep(w)
    \/ \E w \in WorkerIds : TimerFire(w)
    \/ SinkStep
    \/ CancelCtx
    \/ StopStep

Spec == Init /\ [][Next]_vars

\* Scheduling: a goroutine that can take a step takes it, and a timer that
\* is armed fires. Callers (Submit, Start, Stop, the owner of the parent
\* context) are under no obligation to act.
FairSpec ==
    /\ Spec
    /\ \A w \in WorkerIds : WF_vars(WorkerStep(w))
    /\ \A w \in WorkerIds : WF_vars(TimerFire(w))
    /\ \A j \in JobIds : WF_vars(SubmitStore(j))
    /\ WF_vars(SinkStep)

\* The pool whose context is never cancelled and on which Stop is never
\* called: the steps of the callers of SubmitJob and Start, of the workers
\* and of the result processor that such a pool can take.
LiveWorkerStep(w) ==
    \/ WorkerSelect(w)
    \/ WorkerPark(w)
    \/ ProcStatus(w)
    \/ ProcStartedAt(w)
    \/ ProcStore(w)
    \/ SleepSelect(w)
    \/ SleepPark(w)
    \/ ProcCompletedAt(w)
    \/ ProcFinalStatus(w)
    \/ ProcFinalField(w)
    \/ ProcSend(w)
    \/ SendPark(w)

LiveSinkStep == SinkSelect \/ SinkPark \/ SinkStore

LiveNext ==
    \/ \E in \in JobInputs, callerDone \in BOOLEAN : Submit(in, callerDone)
    \/ \E j \in JobIds : SubmitStore(j)
    \/ Start
    \/ \E w \in WorkerIds : LiveWorkerStep(w)
    \/ \E w \in WorkerIds : TimerFire(w)
    \/ LiveSinkStep

LiveSpec ==
    /\ Init
    /\ [][LiveNext]_vars
    /\ \A w \in WorkerIds : WF_vars(LiveWorkerStep(w))
    /\ \A w \in WorkerIds : WF_vars(TimerFire(w))
    /\ \A j \in JobIds : WF_vars(SubmitStore(j))
    /\ WF_vars(LiveSinkStep)

\* The same pool given up to MaxKindJobs jobs drawn from KindInputs. Once
\* Stop() has been called its goroutine goes on to the end of Stop.
KindSubmit(in, callerDone) == nextId <= MaxKindJobs /\ Submit(in, callerDone)

StopRest ==
    \/ StopCloseQuit
    \/ StopWait
    \/ StopCloseJobQueue
    \/ StopCloseResultQueue

KindNext ==
    \/ \E in \in KindInputs, callerDone \in BOOLEAN : KindSubmit(in, callerDone)
    \/ \E j \in JobIds : SubmitStore(j)
    \/ Start
    \/ \E w \in WorkerIds : WorkerStep(w)
    \/ \E w \in WorkerIds : TimerFire(w)
    \/ SinkStep
    \/ CancelCtx
    \/ StopStep

KindSpec ==
    /\ Init
    /\ [][KindNext]_vars
    /\ \A w \in WorkerIds : WF_vars(WorkerStep(w))
    /\ \A w \in WorkerIds : WF_vars(TimerFire(w))
    /\ \A j \in JobIds : WF_vars(SubmitStore(j))
    /\ WF_vars(SinkStep)
    /\ WF_vars(StopRest)

\* The same pool given up to MaxJobs jobs drawn from FailInputs, none of
\* which reaches executeJob's select: the steps such a pool can take.
FailWorkerStep(w) ==
    \/ WorkerSelect(w)
    \/ WorkerPark(w)
    \/ WorkerWake(w)
    \/ ProcStatus(w)
    \/ ProcStartedAt(w)
    \/ ProcStore(w)
    \/ ProcCompletedAt(w)
    \/ ProcFinalStatus(w)
    \/ ProcFinalField(w)
    \/ ProcSend(w)
    \/ SendPark(w)
    \/ SendWake(w)

FailNext ==
    \/ \E in \in FailInputs, callerDone \in BOOLEAN : Submit(in, callerDone)
    \/ \E j \in JobIds : SubmitStore(j)
    \/ Start
    \/ \E w \in WorkerIds : FailWorkerStep(w)
    \/ SinkStep
    \/ CancelCtx
    \/ StopStep

FailSpec == Init /\ [][FailNext]_vars

\* ----------------------------------------------------- ListJobsHandler
\* A pointer of a validated filter as GetAllJobs takes it ("" when nil).
Deref(ptr) == IF ptr = NilPtr THEN "" ELSE ptr

\* A list request arrives.
ListArrive(query) ==
    /\ req.pc = "idle"
    /\ req' = [NoRequest EXCEPT !.pc = "parse", !.query = query]
    /\ UNCHANGED << sink2, mu, rd, numWorkers, poolSize, jobQueue, jobQueueClosed,
                    resultQueue, resultQueueClosed, quit, ctxDone, jobs, job,
                    nextId, sub, started, wg, wpc, wjob, wout, timer, spc,
                    sjob, stopPc, cancelledMidSleep >>

\* ListJobsHandler: parseFilter, and http.Error with 400 on an error.
ListParse ==
    /\ req.pc = "parse"
    /\ LET r == parseFilter(req.query) IN
       req' = [req EXCEPT !.pc = IF r.err # NoError THEN "rejected" ELSE "list",
                          !.filter = r.filter, !.err = r.err]
    /\ UNCHANGED << sink2, mu, rd, numWorkers, poolSize, jobQueue, jobQueueClosed,
                    resultQueue, resultQueueClosed, quit, ctxDone, jobs, job,
                    nextId, sub, started, wg, wpc, wjob, wout, timer, spc,
                    sjob, stopPc, cancelledMidSleep >>

\* ListJobsHandler: h.service.ListJobs, which is p.GetAllJobs, and the 200
\* response.
ListStore ==
    /\ req.pc = "list"
    /\ req' = [req EXCEPT !.pc = "listed",
                          !.listed = GetAllJobs(Deref(req.filter.Type),
                                                Deref(req.filter.Status))]
    /\ UNCHANGED << sink2, mu, rd, numWorkers, poolSize, jobQueue, jobQueueClosed,
                    resultQueue, resultQueueClosed, quit, ctxDone, jobs, job,
                    nextId, sub, started, wg, wpc, wjob, wout, timer, spc,
                    sjob, stopPc, cancelledMidSleep >>

\* The response is written and the handler returns.
ListReturn ==
    /\ req.pc \in {"rejected", "listed"}
    /\ req' = NoRequest
    /\ UNCHANGED << sink2, mu, rd, numWorkers, poolSize, jobQueue, jobQueueClosed,
                    resultQueue, resultQueueClosed, quit, ctxDone, jobs, job,
                    nextId, sub, started, wg, wpc, wjob, wout, timer, spc,
                    sjob, stopPc, cancelledMidSleep >>

\* The service with list requests on a pool that holds up to MaxKindJobs
\* jobs nobody runs.
ListNext ==
    \/ \E in \in JobInputs : KindSubmit(in, FALSE)
    \/ \E j \in JobIds : SubmitStore(j)
    \/ \E query \in Queries : ListArrive(query)
    \/ ListParse
    \/ ListStore
    \/ ListReturn

ListSpec == Init /\ [][ListNext]_vars

\* ------------------------------------------------------------ jobsMutex
\* The goroutines that call storeJob: the caller of SubmitJob with job j,
\* worker w, the result processor.
Submitter(j) == << "submit", j >>
Worker(w) == << "worker", w >>
Sink == << "sink", 0 >>
Writers ==
    { Submitter(j) : j \in JobIds } \cup { Worker(w) : w \in WorkerIds }
    \cup {Sink}

\* Goroutine t is at a call of storeJob.
AtStoreJob(t) ==
    CASE t[1] = "submit" -> t[2] \in DOMAIN sub /\ sub[t[2]].pc = "sent"
      [] t[1] = "worker" -> wpc[t[2]] = "p_store"
      [] OTHER -> spc = "store"

\* sync.RWMutex.Lock() takes the mutex rw.w that writers queue on: it is free
\* when no writer has announced itself or holds the lock.
CanLockW == mu.pending = {} /\ mu.writers = {}

\* Mutant of CanLock: Lock() does not wait for the readers to leave.
CanLock_IgnoreReaders == TRUE

\* sync.RWMutex: the writer that has announced itself returns from Lock()
\* when the readers that were inside have left.
CanLock == mu.readers = {}

\* sync.RWMutex: RLock() returns at once when no writer has announced itself
\* or holds the lock; writers queued on rw.w do not hold a reader back.
CanRLock == mu.pending = {} /\ mu.writers = {}

\* storeJob: p.jobsMutex.Lock() is called.
StoreLockCall(t) ==
    /\ AtStoreJob(t)
    /\ t \notin mu.waiting \cup mu.pending \cup mu.writers
    /\ mu' = [mu EXCEPT !.waiting = @ \cup {t}]
    /\ UNCHANGED << sink2, req, rd, numWorkers, poolSize, jobQueue, jobQueueClosed,
                    resultQueue, resultQueueClosed, quit, ctxDone, jobs, job,
                    nextId, sub, started, wg, wpc, wjob, wout, timer, spc,
                    sjob, stopPc, cancelledMidSleep >>

\* storeJob: inside Lock(), rw.w is taken and the writer announces itself to
\* the readers.
StoreAnnounce(t) ==
    /\ t \in mu.waiting
    /\ CanLockW
    /\ mu' = [mu EXCEPT !.waiting = @ \ {t}, !.pending = @ \cup {t}]
    /\ UNCHANGED << sink2, req, rd, numWorkers, poolSize, jobQueue, jobQueueClosed,
                    resultQueue, resultQueueClosed, quit, ctxDone, jobs, job,
                    nextId, sub, started, wg, wpc, wjob, wout, timer, spc,
                    sjob, stopPc, cancelledMidSleep >>

\* storeJob: p.jobsMutex.Lock() returns.
StoreLock(t) ==
    /\ t \in mu.pending
    /\ CanLock
    /\ mu' = [mu EXCEPT !.pending = @ \ {t}, !.writers = @ \cup {t}]
    /\ UNCHANGED << sink2, req, rd, numWorkers, poolSize, jobQueue, jobQueueClosed,
                    resultQueue, resultQueueClosed, quit, ctxDone, jobs, job,
                    nextId, sub, started, wg, wpc, wjob, wout, timer, spc,
                    sjob, stopPc, cancelledMidSleep >>

\* Call x of a reader with RLock() returned: GetAllJobs is at the head of its
\* loop over map m (Go visits the entries in no fixed order), its slice
\* empty.
Entered(x, m) ==
    [x EXCEPT !.pc = "in",
              !.todo = IF x.op = "list" THEN DOMAIN m ELSE {},
              !.acc = {},
              !.answers = IF x.op = "list"
                          THEN {WouldList(m, job, x.ft, x.fs)} ELSE {}]

\* Mutant of StorePut: storeJob returns without Unlock().
StorePut_KeepLock(t) ==
    /\ t \in mu.writers
    /\ CASE t[1] = "submit" -> SubmitStorePut(t[2])
         [] t[1] = "worker" -> ProcStorePut(t[2])
         [] OTHER -> SinkStorePut
    /\ UNCHANGED << sink2, req, rd, mu >>

\* storeJob: p.jobs[job.UID.String()] = job and the deferred Unlock(), by
\* the goroutine that holds the lock. Unlock() lets in the readers that
\* blocked in RLock() and only then gives up rw.w.
StorePut(t) ==
    /\ t \in mu.writers
    /\ CASE t[1] = "submit" -> SubmitStorePut(t[2])
         [] t[1] = "worker" -> ProcStorePut(t[2])
         [] OTHER -> SinkStorePut
    /\ mu' = [mu EXCEPT !.writers = @ \ {t}, !.readers = @ \cup mu.blocked,
                        !.blocked = {}]
    /\ rd' = [r \in ReaderIds |->
                IF r \in mu.blocked THEN Entered(rd[r], jobs') ELSE rd[r]]
    /\ UNCHANGED << sink2, req >>

\* The calls a reader makes: GetJob with the id of the first job, which is
\* in the map or not yet, and GetAllJobs.
ReadInputs ==
    { [op |-> "get", id |-> 1, ft |-> "", fs |-> ""],
      [op |-> "list", id |-> NoJob, ft |-> "", fs |-> ""] }

\* GetJob / GetAllJobs: p.jobsMutex.RLock() is called.
ReadCall(r, in) ==
    /\ rd[r].pc = "idle"
    /\ rd' = [rd EXCEPT ![r] = [NoRead EXCEPT !.pc = "rlock", !.op = in.op,
                                              !.id = in.id, !.ft = in.ft,
                                              !.fs = in.fs]]
    /\ UNCHANGED << sink2, req, mu, numWorkers, poolSize, jobQueue, jobQueueClosed,
                    resultQueue, resultQueueClosed, quit, ctxDone, jobs, job,
                    nextId, sub, started, wg, wpc, wjob, wout, timer, spc,
                    sjob, stopPc, cancelledMidSleep >>

\* GetJob / GetAllJobs: p.jobsMutex.RLock() finds a writer announced or
\* inside and blocks until that writer's Unlock().
ReadBlock(r) ==
    /\ rd[r].pc = "rlock"
    /\ ~CanRLock
    /\ mu' = [mu EXCEPT !.blocked = @ \cup {r}]
    /\ rd' = [rd EXCEPT ![r].pc = "blocked"]
    /\ UNCHANGED << sink2, req, numWorkers, poolSize, jobQueue, jobQueueClosed,
                    resultQueue, resultQueueClosed, quit, ctxDone, jobs, job,
                    nextId, sub, started, wg, wpc, wjob, wout, timer, spc,
                    sjob, stopPc, cancelledMidSleep >>

\* GetJob / GetAllJobs: p.jobsMutex.RLock() returns at once.
ReadLock(r) ==
    /\ rd[r].pc = "rlock"
    /\ CanRLock
    /\ mu' = [mu EXCEPT !.readers = @ \cup {r}]
    /\ rd' = [rd EXCEPT ![r] = Entered(rd[r], jobs)]
    /\ UNCHANGED << sink2, req, numWorkers, poolSize, jobQueue, jobQueueClosed,
                    resultQueue, resultQueueClosed, quit, ctxDone, jobs, job,
                    nextId, sub, started, wg, wpc, wjob, wout, timer, spc,
                    sjob, stopPc, cancelledMidSleep >>

\* GetAllJobs: one turn of the loop. Entry k is tested with the Type and
\* Status its job has now and appended when it passes.
ReadVisit(r) ==
    /\ rd[r].pc = "in"
    /\ \E k \in rd[r].todo :
         rd' = [rd EXCEPT ![r].todo = @ \ {k},
                          ![r].acc = IF Keeps(job[jobs[k]], rd[r].ft, rd[r].fs)
                                     THEN @ \cup {jobs[k]} ELSE @]
    /\ UNCHANGED << sink2, req, mu, numWorkers, poolSize, jobQueue, jobQueueClosed,
                    resultQueue, resultQueueClosed, quit, ctxDone, jobs, job,
                    nextId, sub, started, wg, wpc, wjob, wout, timer, spc,
                    sjob, stopPc, cancelledMidSleep >>

\* GetJob: the map lookup; GetAllJobs: the loop is over. The deferred
\* RUnlock() and the return.
ReadReturn(r) ==
    /\ rd[r].pc = "in"
    /\ rd[r].todo = {}
    /\ rd' = [rd EXCEPT ![r] = NoRead]
    /\ mu' = [mu EXCEPT !.readers = @ \ {r}]
    /\ UNCHANGED << sink2, req, numWorkers, poolSize, jobQueue, jobQueueClosed,
                    resultQueue, resultQueueClosed, quit, ctxDone, jobs, job,
                    nextId, sub, started, wg, wpc, wjob, wout, timer, spc,
                    sjob, stopPc, cancelledMidSleep >>

\* The steps of a worker, storeJob apart.
LockWorkerStep(w) ==
    \/ WorkerSelect(w)
    \/ WorkerPark(w)
    \/ WorkerWake(w)
    \/ ProcStatus(w)
    \/ ProcStartedAt(w)
    \/ SleepSelect(w)
    \/ SleepPark(w)
    \/ SleepWake(w)
    \/ ProcCompletedAt(w)
    \/ ProcFinalStatus(w)
    \/ ProcFinalField(w)
    \/ ProcSend(w)
    \/ SendPark(w)
    \/ SendWake(w)

LockSinkStep == SinkSelect \/ SinkPark \/ SinkWake

\* The steps that the goroutines of the pool and the calls in progress take
\* by themselves.
LockInternal ==
    \/ \E t \in Writers : StoreLockCall(t)
    \/ \E t \in Writers : StoreAnnounce(t)
    \/ \E t \in Writers : StoreLock(t)
    \/ \E t \in Writers : StorePut(t)
    \/ \E r \in ReaderIds : ReadBlock(r)
    \/ \E r \in ReaderIds : ReadLock(r)
    \/ \E r \in ReaderIds : ReadVisit(r)
    \/ \E r \in ReaderIds : ReadReturn(r)
    \/ \E w \in WorkerIds : LockWorkerStep(w)
    \/ \E w \in WorkerIds : TimerFire(w)
    \/ LockSinkStep

\* The pool before Stop(), given up to MaxKindJobs jobs, with storeJob,
\* GetJob and GetAllJobs taking p.jobsMutex step by step.
LockNext ==
    \/ \E in \in JobInputs, callerDone \in BOOLEAN : KindSubmit(in, callerDone)
    \/ \E r \in ReaderIds, in \in ReadInputs : ReadCall(r, in)
    \/ Start
    \/ CancelCtx
    \/ \E t \in Writers : StoreLockCall(t)
    \/ \E t \in Writers : StoreAnnounce(t)
    \/ \E t \in Writers : StoreLock(t)
    \/ \E t \in Writers : StorePut(t)
    \/ \E r \in ReaderIds : ReadBlock(r)
    \/ \E r \in ReaderIds : ReadLock(r)
    \/ \E r \in ReaderIds : ReadVisit(r)
    \/ \E r \in ReaderIds : ReadReturn(r)
    \/ \E w \in WorkerIds : LockWorkerStep(w)
    \/ \E w \in WorkerIds : TimerFire(w)
    \/ LockSinkStep

LockSpec == Init /\ [][LockNext]_vars

\* ------------------------------------------- GetAllJobs beside a worker
\* The jobs submitted to that pool: one that completes and one that fails,
\* of the two types, neither waiting for a timer.
ScanJobs ==
    { [Type |-> "math", Payload |-> MathJobPayload(4)],
      [Type |-> "sleep", Payload |-> SleepJobPayload("bad")] }

\* The GetAllJobs calls made on it: with a Status predicate, with a Type
\* predicate, with both and with none.
ScanInputs ==
    { [op |-> "list", id |-> NoJob, ft |-> ft, fs |-> fs] :
        ft \in {"", "math"}, fs \in {"", JobStatusPending, JobStatusRunning} }

\* One caller of GetAllJobs at a time.
ScanReaders == {1}

\* NewWorkerPool(ctx, n, MaxPoolSize) with n at most 1.
ScanInit == Init /\ numWorkers <= 1 /\ poolSize = MaxPoolSize

\* The steps of a worker of that pool, storeJob apart: nothing is cancelled
\* and no job waits for a timer.
ScanWorkerStep(w) ==
    \/ WorkerSelect(w)
    \/ WorkerPark(w)
    \/ ProcStatus(w)
    \/ ProcStartedAt(w)
    \/ ProcCompletedAt(w)
    \/ ProcFinalStatus(w)
    \/ ProcFinalField(w)
    \/ ProcSend(w)
    \/ SendPark(w)

ScanSinkStep == SinkSelect \/ SinkPark

\* The pool before Stop(), given up to MaxJobs jobs, with storeJob and
\* GetAllJobs taking p.jobsMutex step by step and GetAllJobs running its loop
\* turn by turn while the worker goes on.
ScanNext ==
    \/ \E in \in ScanJobs : Submit(in, FALSE)
    \/ \E r \in ScanReaders, in \in ScanInputs : ReadCall(r, in)
    \/ Start
    \/ \E t \in Writers : StoreLockCall(t)
    \/ \E t \in Writers : StoreAnnounce(t)
    \/ \E t \in Writers : StoreLock(t)
    \/ \E t \in Writers : StorePut(t)
    \/ \E r \in ScanReaders : ReadBlock(r)
    \/ \E r \in ScanReaders : ReadLock(r)
    \/ \E r \in ScanReaders : ReadVisit(r)
    \/ \E r \in ScanReaders : ReadReturn(r)
    \/ \E w \in WorkerIds : ScanWorkerStep(w)
    \/ ScanSinkStep

ScanSpec == ScanInit /\ [][ScanNext]_vars

\* ------------------------------------------------------- one worker
\* NewWorkerPool(ctx, 1, OrderPoolSize): one worker and a job queue that
\* holds every job the callers submit.
OrderInit ==
    /\ numWorkers = 1
    /\ poolSize = OrderPoolSize
    /\ jobQueue = << >>
    /\ jobQueueClosed = FALSE
    /\ resultQueue = << >>
    /\ resultQueueClosed = FALSE
    /\ quit = FALSE
    /\ ctxDone = FALSE
    /\ jobs = << >>
    /\ job = << >>
    /\ nextId = 1
    /\ sub = << >>
    /\ started = FALSE
    /\ wg = 0
    /\ wpc = [w \in WorkerIds |-> "off"]
    /\ wjob = [w \in WorkerIds |-> NoJob]
    /\ wout = [w \in WorkerIds |-> NoOutcome]
    /\ timer = [w \in WorkerIds |-> "off"]
    /\ spc = "off"
    /\ sjob = NoJob
    /\ stopPc = "none"
    /\ cancelledMidSleep = {}
    /\ req = NoRequest
    /\ mu = Unlocked
    /\ rd = [r \in ReaderIds |-> NoRead]
    /\ sink2 = NoSink

\* The steps of a worker of that pool: the result queue has room for every
\* job, so the send in processJob never finds it full.
OrderWorkerStep(w) ==
    \/ WorkerSelect(w)
    \/ WorkerPark(w)
    \/ WorkerWake(w)
    \/ ProcStatus(w)
    \/ ProcStartedAt(w)
    \/ ProcStore(w)
    \/ SleepSelect(w)
    \/ SleepPark(w)
    \/ SleepWake(w)
    \/ ProcCompletedAt(w)
    \/ ProcFinalStatus(w)
    \/ ProcFinalField(w)
    \/ ProcSend(w)

OrderNext ==
    \/ \E in \in JobInputs, callerDone \in BOOLEAN : Submit(in, callerDone)
    \/ \E j \in JobIds : SubmitStore(j)
    \/ Start
    \/ \E w \in WorkerIds : OrderWorkerStep(w)
    \/ \E w \in WorkerIds : TimerFire(w)
    \/ SinkStep
    \/ CancelCtx
    \/ StopStep

OrderSpec == OrderInit /\ [][OrderNext]_vars

\* ------------------------------------------------------- Start() again
\* The workers a second Start() launches.
SecondWorkers == { w \in WorkerIds : numWorkers < w /\ w <= 2 * numWorkers }

\* Mutant of StartAgain: the goroutines are launched without p.wg.Add(1).
StartAgain_Uncounted ==
    /\ started
    /\ sink2.pc = "off"
    /\ stopPc = "none"
    /\ 2 * numWorkers <= MaxWorkers
    /\ wpc' = [w \in WorkerIds |-> IF w \in SecondWorkers THEN "select" ELSE wpc[w]]
    /\ sink2' = [pc |-> "select", job |-> NoJob, behind |-> FALSE]
    /\ UNCHANGED << req, mu, rd, numWorkers, poolSize, jobQueue, jobQueueClosed,
                    resultQueue, resultQueueClosed, quit, ctxDone, jobs, job,
                    nextId, sub, started, wg, wjob, wout, timer, spc, sjob,
                    stopPc, cancelledMidSleep >>

\* Start() called a second time, before Stop(): numWorkers more worker
\* goroutines and one more resultProcessor, each counted in p.wg. The model
\* has MaxWorkers worker goroutines, so the call is made on pools of at most
\* MaxWorkers / 2 workers.
StartAgain ==
    /\ started
    /\ sink2.pc = "off"
    /\ stopPc = "none"
    /\ 2 * numWorkers <= MaxWorkers
    /\ wpc' = [w \in WorkerIds |-> IF w \in SecondWorkers THEN "select" ELSE wpc[w]]
    /\ sink2' = [pc |-> "select", job |-> NoJob, behind |-> FALSE]
    /\ wg' = wg + numWorkers + 1
    /\ UNCHANGED << req, mu, rd, numWorkers, poolSize, jobQueue, jobQueueClosed,
                    resultQueue, resultQueueClosed, quit, ctxDone, jobs, job,
                    nextId, sub, started, wjob, wout, timer, spc, sjob,
                    stopPc, cancelledMidSleep >>

\* The second resultProcessor takes case c of its select: it receives a job
\* (from the buffer, a worker parked on the send taking the freed place, or
\* from such a worker directly), or returns.
Sink2Take(c) ==
    /\ \/ /\ c = "job"
          /\ UNCHANGED wg
          /\ IF ParkedSenders = {}
             THEN /\ sink2' = [pc |-> "store", job |-> Head(resultQueue),
                                         behind |-> FALSE]
                  /\ resultQueue' = Tail(resultQueue)
                  /\ UNCHANGED << wpc, wjob, wout, timer >>
             ELSE \E w \in ParkedSenders :
                  /\ IF Len(resultQueue) > 0
                     THEN /\ sink2' = [pc |-> "store", job |-> Head(resultQueue),
                                         behind |-> FALSE]
                          /\ resultQueue' = Append(Tail(resultQueue), wjob[w])
                     ELSE /\ sink2' = [pc |-> "store", job |-> wjob[w],
                                         behind |-> FALSE]
                          /\ UNCHANGED resultQueue
                  /\ wpc' = [wpc EXCEPT ![w] = "select"]
                  /\ wjob' = [wjob EXCEPT ![w] = NoJob]
                  /\ wout' = [wout EXCEPT ![w] = NoOutcome]
                  /\ timer' = [timer EXCEPT ![w] = "off"]
       \/ /\ c # "job"
          /\ sink2' = [pc |-> "exited", job |-> NoJob, behind |-> FALSE]
          /\ wg' = wg - 1
          /\ UNCHANGED << resultQueue, wpc, wjob, wout, timer >>
    /\ UNCHANGED << req, mu, rd, numWorkers, poolSize, jobQueue, jobQueueClosed,
                    resultQueueClosed, quit, ctxDone, jobs, job, nextId, sub,
                    started, spc, sjob, stopPc, cancelledMidSleep >>

\* The second resultProcessor's select with a case ready.
Sink2Select == sink2.pc = "select" /\ \E c \in SinkReady : Sink2Take(c)

\* The second resultProcessor's select with nothing ready: it parks, behind
\* the first resultProcessor when that one is parked on the channel already.
Sink2Park ==
    /\ sink2.pc = "select"
    /\ SinkReady = {}
    /\ sink2' = [sink2 EXCEPT !.pc = "parked", !.behind = SinkParked]
    /\ UNCHANGED << req, mu, rd, numWorkers, poolSize, jobQueue, jobQueueClosed,
                    resultQueue, resultQueueClosed, quit, ctxDone, jobs, job,
                    nextId, sub, started, wg, wpc, wjob, wout, timer, spc,
                    sjob, stopPc, cancelledMidSleep >>

\* The parked second resultProcessor woken by close(p.quit) or by the
\* cancellation; a job reaches it while parked only by a sender's hand-off.
Sink2Wake ==
    /\ sink2.pc = "parked"
    /\ \E c \in SinkReady \ {"job"} : Sink2Take(c)

\* The second resultProcessor: p.storeJob(job)
Sink2Store ==
    /\ sink2.pc = "store"
    /\ jobs' = storeJob(sink2.job)
    /\ sink2' = [pc |-> "select", job |-> NoJob, behind |-> FALSE]
    /\ UNCHANGED << req, mu, rd, numWorkers, poolSize, jobQueue, jobQueueClosed,
                    resultQueue, resultQueueClosed, quit, ctxDone, job, nextId,
                    sub, started, wg, wpc, wjob, wout, timer, spc, sjob,
                    stopPc, cancelledMidSleep >>

Sink2Step == Sink2Select \/ Sink2Park \/ Sink2Wake \/ Sink2Store

\* The pool given up to MaxKindJobs jobs, on which Start() may be called a
\* second time.
AgainNext ==
    \/ \E in \in JobInputs, callerDone \in BOOLEAN : KindSubmit(in, callerDone)
    \/ \E j \in JobIds : SubmitStore(j)
    \/ Start
    \/ StartAgain
    \/ \E w \in WorkerIds : WorkerStep(w)
    \/ \E w \in WorkerIds : TimerFire(w)
    \/ SinkStep
    \/ Sink2Step
    \/ StopStep

AgainSpec == Init /\ [][AgainNext]_vars

\* ------------------------------------------------------------ vocabulary
Terminal == {JobStatusCompleted, JobStatusFailed}

\* The SubmitJob call made with job j sent it on the job queue.
Accepted(j) == j \in DOMAIN sub /\ sub[j].pc \in {"sent", "returned"} /\ sub[j].err = NoError

\* The SubmitJob call made with job j returned nil.
ReturnedNil(j) == j \in DOMAIN sub /\ sub[j].pc = "returned" /\ sub[j].err = NoError

\* The SubmitJob call made with job j returned an error.
Rejected(j) == j \in DOMAIN sub /\ sub[j].pc = "returned" /\ sub[j].err # NoError

InSeq(q, j) == \E i \in 1..Len(q) : q[i] = j

\* Job j as submitted: no field assigned since the caller built it.
Untouched(j) ==
    /\ job[j].Status = JobStatusPending
    /\ job[j].StartedAt = NilTime
    /\ job[j].CompletedAt = NilTime
    /\ job[j].Result = NilResult
    /\ job[j].Error = NoError

\* Job j is nowhere in the pool: not queued, not with a worker or the result
\* processor, not in the map.
Nowhere(j) ==
    /\ ~InSeq(jobQueue, j)
    /\ ~InSeq(resultQueue, j)
    /\ \A w \in WorkerIds : wjob[w] # j
    /\ sjob # j
    /\ ~GetJob(job[j].UID).exists

\* ------------------------------------------------------------------- C1
\* C1 (as stated): a SubmitJob call made while the job queue holds poolSize
\* jobs and neither p.ctx nor the caller's context is done returns "job queue
\* is full" in that one step, and leaves the queue, the workers and the job
\* map as they were.
C1_AsStated ==
    [][\A in \in JobInputs :
         (Submit(in, FALSE) /\ Len(jobQueue) = poolSize /\ ~ctxDone)
         => /\ sub'[nextId] = [pc |-> "returned", err |-> ErrQueueFull]
            /\ jobQueue' = jobQueue
            /\ wjob' = wjob
            /\ jobs' = jobs]_vars

\* C1 (amended): the same, when in addition no worker is parked in its select
\* waiting to receive a job; a queue of capacity 1 or more that is full has
\* no such worker.
C1_QueueFullRejects ==
    [][/\ \A in \in JobInputs :
            (Submit(in, FALSE) /\ Len(jobQueue) = poolSize /\ ~ctxDone
               /\ ParkedWorkers = {})
            => /\ sub'[nextId] = [pc |-> "returned", err |-> ErrQueueFull]
               /\ jobQueue' = jobQueue
               /\ wjob' = wjob
               /\ jobs' = jobs
       /\ (poolSize >= 1 /\ Len(jobQueue) = poolSize) => ParkedWorkers = {}]_vars

\* A job was refused with "job queue is full" by a queue of capacity >= 1 that
\* is still full, a started worker pool around it, no cancellation.
C1_Witness ==
    \E j \in DOMAIN sub :
        /\ sub[j] = [pc |-> "returned", err |-> ErrQueueFull]
        /\ poolSize >= 1
        /\ Len(jobQueue) = poolSize
        /\ ~ctxDone
        /\ Nowhere(j)

\* ------------------------------------------------------------------- C2
\* C2: a SubmitJob call made while the job queue has room and neither context
\* is done takes the send case, whose only continuation is storeJob and
\* return nil; once a call has returned nil, GetJob finds its job under its
\* UID; GetJob finds no job whose SubmitJob call did not send it.
C2_AcceptedIsStored ==
    /\ [][\A in \in JobInputs :
            (Submit(in, FALSE) /\ JobQueueHasRoom /\ ~ctxDone)
            => sub'[nextId] = [pc |-> "sent", err |-> NoError]]_vars
    /\ [](\A j \in DOMAIN sub :
            ReturnedNil(j) => GetJob(job[j].UID) = [job |-> j, exists |-> TRUE])
    /\ [](\A id \in JobIds :
            GetJob(id).exists => \E j \in DOMAIN sub : job[j].UID = id /\ Accepted(j))

\* A call returned nil with no cancellation around, and GetJob finds the job,
\* while another job was refused and is not found.
C2_Witness ==
    \E j, k \in DOMAIN sub :
        /\ ReturnedNil(j)
        /\ ~ctxDone
        /\ GetJob(job[j].UID).exists
        /\ Rejected(k)
        /\ ~GetJob(job[k].UID).exists

\* ------------------------------------------------------------------- C3
\* C3: a SubmitJob call that returns an error leaves the job queue, the
\* workers and the job map as they were, and a job whose call returned an
\* error is never in the pool and never touched by a worker.
C3_RejectedNeverEnters ==
    /\ [][\A in \in JobInputs, cd \in BOOLEAN :
            (Submit(in, cd) /\ sub'[nextId].pc = "returned")
            => /\ sub'[nextId].err \in {ErrQueueFull, ErrCanceled}
               /\ jobQueue' = jobQueue
               /\ wjob' = wjob
               /\ wpc' = wpc
               /\ jobs' = jobs]_vars
    /\ [](\A j \in DOMAIN sub : Rejected(j) => Nowhere(j) /\ Untouched(j))

\* An error was returned to a call made around a pool whose worker has
\* meanwhile run another job to its end.
C3_Witness ==
    \E j, l \in DOMAIN sub :
        /\ Rejected(j)
        /\ Nowhere(j)
        /\ job[l].Status \in Terminal

\* ------------------------------------------------------------------- C4
\* C4: a SubmitJob call made when p.ctx is done, or with a caller's context
\* that is done, returns "context canceled" and does not put the job on the
\* queue, also when the queue has room.
C4_CancelledRejects ==
    [][\A in \in JobInputs, cd \in BOOLEAN :
         (Submit(in, cd) /\ (ctxDone \/ cd))
         => /\ sub'[nextId] = [pc |-> "returned", err |-> ErrCanceled]
            /\ jobQueue' = jobQueue
            /\ wjob' = wjob]_vars

\* ------------------------------------------------------------------- C5
\* C5: a SubmitJob call made after Stop() has returned returns an error: it
\* does not succeed, does not store the job, and ends in nothing but an error
\* return.
C5_SubmitAfterStopFails ==
    [][\A in \in JobInputs, cd \in BOOLEAN :
         (Submit(in, cd) /\ stopPc = "done")
         => /\ sub'[nextId].pc = "returned"
            /\ sub'[nextId].err # NoError
            /\ jobs' = jobs]_vars

\* ------------------------------------------------------------------- C6
\* GetJob finds job j with a terminal status.
TerminalInStore(j) ==
    /\ j \in DOMAIN job
    /\ GetJob(job[j].UID).exists
    /\ job[GetJob(job[j].UID).job].Status \in Terminal

\* C6: with the pool started and at least one worker, every job SubmitJob has
\* sent on the queue is eventually found by GetJob with status completed or
\* failed, unless p.ctx is cancelled.
C6_AcceptedTerminates ==
    \A j \in JobIds :
        (started /\ numWorkers >= 1 /\ Accepted(j)) ~> (ctxDone \/ TerminalInStore(j))

\* Every job the model can submit was accepted and is terminal in the store,
\* one of them a sleep job that completed, with no cancellation.
C6_Witness ==
    /\ ~ctxDone
    /\ \A j \in JobIds : j \in DOMAIN sub /\ Accepted(j) /\ TerminalInStore(j)
    /\ \E j \in JobIds : job[j].Type = "sleep" /\ job[j].Status = JobStatusCompleted

\* ------------------------------------------------------------------- C7
\* One step of a job's status along pending -> running -> completed | failed.
StatusStep(a, b) ==
    \/ a = b
    \/ a = JobStatusPending /\ b = JobStatusRunning
    \/ a = JobStatusRunning /\ b \in Terminal

\* C7: every job's status moves only along pending -> running -> completed |
\* failed, a terminal status never changes, and the record that enters the
\* job map for a job is its pending record (the pending record is written
\* before the running one).
C7_StatusOrder ==
    [][\A j \in DOMAIN job :
         /\ StatusStep(job[j].Status, job'[j].Status)
         /\ (~GetJob(job[j].UID).exists /\ GetJob(job[j].UID).exists')
            => job'[j].Status = JobStatusPending]_vars

\* ------------------------------------------------------------------- C8
\* C8: every record GetJob or GetAllJobs returns has, when its status is
\* completed, a result and no error; when failed, an error and no result;
\* when pending or running, neither.
C8_ResultXorError ==
    \A j \in GetAllJobs("", "") :
        /\ job[j].Status = JobStatusCompleted
           => job[j].Result # NilResult /\ job[j].Error = NoError
        /\ job[j].Status = JobStatusFailed
           => job[j].Result = NilResult /\ job[j].Error # NoError
        /\ job[j].Status \in {JobStatusPending, JobStatusRunning}
           => job[j].Result = NilResult /\ job[j].Error = NoError

\* ------------------------------------------------------------------- C9
\* C9: a sleep job that was running, its duration not elapsed, when p.ctx was
\* cancelled never becomes completed, and if it failed the error is "context
\* canceled".
C9_CancelledSleepFails ==
    \A j \in cancelledMidSleep :
        /\ job[j].Status # JobStatusCompleted
        /\ job[j].Status = JobStatusFailed => job[j].Error \in {NoError, ErrCanceled}

\* ------------------------------------------------------------------ C10
\* C10: GetAllJobs with an empty filter returns exactly the jobs SubmitJob has
\* sent on the queue so far.
C10_ListIsAccepted ==
    GetAllJobs("", "") = { j \in DOMAIN sub : Accepted(j) }

\* ------------------------------------------------------------------ C11
\* The job pointers p.jobs holds.
Stored == { jobs[k] : k \in DOMAIN jobs }

FilterTypes == {"sleep", "math"}
FilterStatuses ==
    {JobStatusPending, JobStatusRunning, JobStatusCompleted, JobStatusFailed}

\* A GetAllJobs call of reader r has run its loop to the end and is about to
\* return the list rd[r].acc.
ListDone(r) == rd[r].pc = "in" /\ rd[r].op = "list" /\ rd[r].todo = {}

\* C11: GetAllJobs returns exactly the stored jobs that satisfy every
\* predicate the filter has: no predicate keeps every stored job, a Type
\* predicate keeps the stored jobs of that type, a Status predicate those
\* with that status, and both together the jobs that satisfy both; and the
\* list a call returns is that list as it was in one of the states the call
\* has been inside its read lock.
C11_FilterExact ==
    /\ GetAllJobs("", "") = Stored
    /\ \A ft \in FilterTypes :
         GetAllJobs(ft, "") = { j \in Stored : job[j].Type = ft }
    /\ \A fs \in FilterStatuses :
         GetAllJobs("", fs) = { j \in Stored : job[j].Status = fs }
    /\ \A ft \in FilterTypes, fs \in FilterStatuses :
         GetAllJobs(ft, fs) = GetAllJobs(ft, "") \cap GetAllJobs("", fs)
    /\ \A r \in ReaderIds : ListDone(r) => rd[r].acc \in rd[r].answers

\* ------------------------------------------------------------------ C12
\* What a reader holding the value v that GetJob or GetAllJobs returned sees
\* in it: v is a *model.Job, so the fields of the object it points to.
Seen(heap, v) ==
    [Status |-> heap[v].Status, Result |-> heap[v].Result,
     Error |-> heap[v].Error, StartedAt |-> heap[v].StartedAt,
     CompletedAt |-> heap[v].CompletedAt]

\* C12: the status, result, error and timestamps of a value that GetJob or
\* GetAllJobs has returned do not change afterwards, whatever the worker or
\* the result processor do to the job.
C12_SnapshotStable ==
    [][\A id \in DOMAIN jobs :
         /\ Seen(job', GetJob(id).job) = Seen(job, GetJob(id).job)
         /\ \A v \in GetAllJobs("", "") : Seen(job', v) = Seen(job, v)]_vars

\* ------------------------------------------------------------------ C13
\* Job j is a math job with a math payload.
IsMath(j) ==
    j \in DOMAIN job /\ job[j].Type = "math" /\ job[j].Payload.kind = "math"

\* 0 + 1 + ... + (n - 1), and 0 when n <= 0.
Triangle(n) == IF n <= 0 THEN 0 ELSE (n * (n - 1)) \div 2

\* Job j is completed with the result a math job of its input has.
MathDone(j) ==
    /\ j \in DOMAIN job
    /\ job[j].Status = JobStatusCompleted
    /\ job[j].Error = NoError
    /\ job[j].Result = MathJobResult(Triangle(job[j].Payload.Number))

\* C13: a math job with input N never fails and never gets a result other
\* than 0 + 1 + ... + (N - 1) (0 for N <= 0); once a started pool with a
\* worker has accepted it, it completes with that result unless p.ctx is
\* cancelled first; and that outcome stays.
C13_MathSum ==
    /\ [](\A j \in JobIds : IsMath(j) =>
            /\ job[j].Status # JobStatusFailed
            /\ job[j].Error = NoError
            /\ job[j].Result \in {NilResult, MathJobResult(Triangle(job[j].Payload.Number))})
    /\ \A j \in JobIds :
         (IsMath(j) /\ Accepted(j) /\ started /\ numWorkers >= 1)
            ~> (ctxDone \/ MathDone(j))
    /\ \A j \in JobIds : []((IsMath(j) /\ MathDone(j)) => []MathDone(j))

\* Math jobs with inputs 4, 1, 0 and a negative one completed with results
\* 6, 0, 0 and 0: here the one with input 4.
C13_Witness ==
    \E j \in DOMAIN job :
        /\ IsMath(j) /\ job[j].Payload.Number = 4
        /\ job[j].Status = JobStatusCompleted
        /\ job[j].Result = MathJobResult(6)

\* ------------------------------------------------------------------ C14
\* Job j declares one type and carries the payload of the other.
Mismatch(j) ==
    /\ j \in DOMAIN job
    /\ \/ job[j].Type = "math" /\ job[j].Payload.kind # "math"
       \/ job[j].Type = "sleep" /\ job[j].Payload.kind # "sleep"

MismatchError(j) ==
    IF job[j].Type = "math" THEN ErrMathPayload ELSE ErrSleepPayload

MismatchFailed(j) ==
    /\ Mismatch(j)
    /\ job[j].Status = JobStatusFailed
    /\ job[j].Error = MismatchError(j)
    /\ job[j].Result = NilResult

\* C14: a job whose payload does not match its declared type is never
\* completed and never has a result; once a started pool with a worker has
\* accepted it, it ends failed with the "invalid math payload type" or
\* "invalid sleep payload type" error unless p.ctx is cancelled first; and the
\* worker that ran it goes back to its loop's select instead of returning.
C14_MismatchFails ==
    /\ [](\A j \in JobIds : Mismatch(j) =>
            /\ job[j].Status # JobStatusCompleted
            /\ job[j].Error \in {NoError, MismatchError(j)}
            /\ job[j].Result = NilResult)
    /\ \A j \in JobIds :
         (Mismatch(j) /\ Accepted(j) /\ started /\ numWorkers >= 1)
            ~> (ctxDone \/ MismatchFailed(j))
    /\ [][\A w \in WorkerIds :
            (wjob[w] # NoJob /\ Mismatch(wjob[w]) /\ wjob'[w] # wjob[w])
            => wpc'[w] = "select"]_vars

\* A math job with a sleep payload has failed with its error, and the worker
\* that ran it is back in its loop, the pool not cancelled.
C14_Witness ==
    /\ ~ctxDone
    /\ \E j \in DOMAIN job :
         /\ MismatchFailed(j) /\ job[j].Type = "math"
         /\ GetJob(job[j].UID).exists
    /\ \E w \in WorkerIds : wpc[w] = "parked" /\ wjob[w] = NoJob
    /\ spc = "parked"

\* ------------------------------------------------------------------ C15
KnownTypes == {"sleep", "math"}

\* Job j declares a type that is neither sleep nor math.
UnknownType(j) == j \in DOMAIN job /\ job[j].Type \notin KnownTypes

UnknownFailed(j) ==
    /\ UnknownType(j)
    /\ job[j].Status = JobStatusFailed
    /\ job[j].Error = ErrUnknownType
    /\ job[j].Result = NilResult

\* C15: SubmitJob accepts a job of a type that is neither sleep nor math like
\* any other (with room in the queue or a waiting worker, and nothing
\* cancelled or closed, the call sends it); the job is never completed; and
\* once a started pool with a worker has accepted it, it ends failed with
\* "unknown job type" unless p.ctx is cancelled first.
C15_UnknownTypeFails ==
    /\ [][\A in \in KindInputs :
            (/\ in.Type \notin KnownTypes
             /\ Submit(in, FALSE)
             /\ ~ctxDone /\ ~jobQueueClosed
             /\ (JobQueueHasRoom \/ ParkedWorkers # {}))
            => sub'[nextId] = [pc |-> "sent", err |-> NoError]]_vars
    /\ [](\A j \in JobIds : UnknownType(j) =>
            /\ job[j].Status # JobStatusCompleted
            /\ job[j].Error \in {NoError, ErrUnknownType}
            /\ job[j].Result = NilResult)
    /\ \A j \in JobIds :
         (UnknownType(j) /\ Accepted(j) /\ started /\ numWorkers >= 1)
            ~> (ctxDone \/ UnknownFailed(j))

\* A job of type "invalid" was accepted, stored, and has failed with
\* "unknown job type", the pool not cancelled.
C15_Witness ==
    /\ ~ctxDone
    /\ \E j \in DOMAIN job :
         /\ UnknownFailed(j)
         /\ ReturnedNil(j)
         /\ GetJob(job[j].UID).exists

\* ------------------------------------------------------------------ C16
\* Job j is a sleep job with a sleep payload whose duration parses.
SleepOk(j) ==
    /\ j \in DOMAIN job
    /\ job[j].Type = "sleep" /\ job[j].Payload.kind = "sleep"
    /\ ParseDuration(job[j].Payload.Duration).ok

\* The result of job j is a sleep result whose SleptFor reads as the
\* duration the payload asked for ("100ms" for "100ms").
ReportsRequested(j) ==
    /\ job[j].Result.kind = "sleep"
    /\ ParseDuration(job[j].Result.SleptFor) = ParseDuration(job[j].Payload.Duration)
    /\ job[j].Payload.Duration = "100ms" => job[j].Result.SleptFor = "100ms"

SleepDone(j) ==
    /\ SleepOk(j)
    /\ job[j].Status = JobStatusCompleted
    /\ job[j].Error = NoError
    /\ job[j].StartedAt = Stamped /\ job[j].CompletedAt = Stamped
    /\ ReportsRequested(j)

\* C16: a sleep job with a parseable duration fails only by cancellation;
\* when it is completed StartedAt and CompletedAt are set, and the result it
\* gets reports the requested duration; once a started pool with a worker has
\* accepted it, it reaches completed with both timestamps and that result
\* unless p.ctx is cancelled.
C16_SleepCompletes ==
    /\ [](\A j \in JobIds : SleepOk(j) =>
            /\ job[j].Status = JobStatusFailed => ctxDone
            /\ job[j].Error \in {NoError, ErrCanceled}
            /\ job[j].Status = JobStatusCompleted
               => job[j].StartedAt = Stamped /\ job[j].CompletedAt = Stamped
            /\ job[j].Result # NilResult => ReportsRequested(j))
    /\ \A j \in JobIds :
         (SleepOk(j) /\ Accepted(j) /\ started /\ numWorkers >= 1)
            ~> (ctxDone \/ SleepDone(j))

\* A sleep job asking for "1000ms" is completed, stored, with both timestamps
\* and the result "1s", the pool not cancelled.
C16_Witness ==
    /\ ~ctxDone
    /\ \E j \in DOMAIN job :
         /\ SleepDone(j)
         /\ job[j].Payload.Duration = "1000ms"
         /\ job[j].Result.SleptFor = "1s"
         /\ GetJob(job[j].UID).exists

\* ------------------------------------------------------------------ C17
\* The SubmitJob calls made so far that could find room, the first poolSize
\* ones, all sent their job.
FirstAccepted ==
    \A l \in DOMAIN sub : l <= poolSize => Accepted(l)

\* C17: in a pool of 0 workers, with nothing cancelled, the first poolSize
\* SubmitJob calls send their job and every later one returns "job queue is
\* full"; every accepted job, accepted from the moment it enters the queue,
\* is in the store with status pending, and no job ever has a status other
\* than pending.
C17_NoWorkers ==
    /\ [][\A in \in JobInputs :
            (numWorkers = 0 /\ Submit(in, FALSE) /\ ~ctxDone /\ FirstAccepted)
            => sub'[nextId] = IF nextId <= poolSize
                              THEN [pc |-> "sent", err |-> NoError]
                              ELSE [pc |-> "returned", err |-> ErrQueueFull]]_vars
    /\ [](numWorkers = 0 =>
            /\ \A j \in DOMAIN job : job[j].Status = JobStatusPending
            /\ \A j \in DOMAIN sub : Accepted(j) =>
                 /\ GetJob(job[j].UID).exists
                 /\ GetJob(job[j].UID).job = j
                 /\ j \in GetAllJobs("", JobStatusPending))

\* ------------------------------------------------------------------ C18
\* Stop() is past p.wg.Wait().
StopPastWait == stopPc \in {"waited", "jobQueue_closed", "done"}

\* Every goroutine Start launched has returned.
AllExited ==
    /\ \A w \in WorkerIds : w <= numWorkers => wpc[w] = "exited"
    /\ spc = "exited"
    /\ wg = 0

\* C18: a Stop() called after Start() returns, whatever the workers are
\* doing when it is called, and from the moment its p.wg.Wait() has returned
\* every worker and the result processor have left their loops.
C18_StopTerminates ==
    /\ (started /\ stopPc \in {"cancelled", "signalled"}) ~> (stopPc = "done")
    /\ [](started /\ StopPastWait => AllExited)

\* Stop() has returned on a started pool of two workers, one of which was in
\* the sleep of a sleep job when the pool was cancelled.
C18_Witness ==
    /\ started /\ stopPc = "done" /\ numWorkers = 2
    /\ cancelledMidSleep # {}
    /\ AllExited

\* ------------------------------------------------------------------ C19
\* The workers that hold job j, and how often j is in the job queue.
Holders(j) == { w \in WorkerIds : wjob[w] = j }
TimesQueued(j) == Cardinality({ i \in 1..Len(jobQueue) : jobQueue[i] = j })

\* C19: a job SubmitJob sent is at any time in the queue once or with one
\* worker, never both and never with two; a worker receives a job only when
\* no worker has touched it (status pending, StartedAt nil, nobody holding
\* it), so never a second time and never after it ran or was cancelled; and
\* StartedAt is set once, by the worker that received the job.
C19_AtMostOnce ==
    /\ [](\A j \in DOMAIN job : Cardinality(Holders(j)) + TimesQueued(j) <= 1)
    /\ [][\A w \in WorkerIds :
            (wjob'[w] # NoJob /\ wjob'[w] # wjob[w])
            => /\ job'[wjob'[w]].Status = JobStatusPending
               /\ job'[wjob'[w]].StartedAt = NilTime
               /\ Holders(wjob'[w]) = {}
               /\ sub'[wjob'[w]].err = NoError
               /\ sub'[wjob'[w]].pc \in {"sent", "returned"}]_vars
    /\ [][\A j \in DOMAIN job :
            job'[j].StartedAt # job[j].StartedAt
            => /\ job[j].StartedAt = NilTime
               /\ \E w \in Holders(j) : wpc[w] = "p_started"]_vars

\* Two workers have each run one of two jobs to a terminal status and are
\* back in their loops; neither job is queued or held.
C19_Witness ==
    /\ numWorkers = 2 /\ DOMAIN job = {1, 2}
    /\ \A j \in {1, 2} :
         /\ job[j].Status \in Terminal /\ job[j].StartedAt = Stamped
         /\ Holders(j) = {} /\ TimesQueued(j) = 0
    /\ \A w \in WorkerIds : wpc[w] = "parked"
    /\ ~ctxDone

\* ------------------------------------------------------------------ C20
\* The error a job of FailInputs ends with, going by its own input alone.
ExpectedError(j) ==
    CASE UnknownType(j) -> ErrUnknownType
      [] Mismatch(j) -> MismatchError(j)
      [] IsMath(j) -> NoError
      [] OTHER -> ErrDuration(job[j].Payload.Duration)

\* C20: a worker or the result processor leaves its loop only when p.quit is
\* closed or p.ctx is cancelled; a worker that is done with a job, failed or
\* not, is back at its loop's select; a job's record is written only by the
\* worker holding it; and whatever else fails, a terminal job is failed
\* exactly when its own input is a failing one, with the error of that input.
C20_FailuresContained ==
    /\ [][\A w \in WorkerIds :
            (wpc'[w] = "exited" /\ wpc[w] # "exited") => (quit \/ ctxDone)]_vars
    /\ [][(spc' = "exited" /\ spc # "exited") => (quit \/ ctxDone)]_vars
    /\ [][\A w \in WorkerIds :
            (wjob[w] # NoJob /\ wjob'[w] # wjob[w]) => wpc'[w] = "select"]_vars
    /\ [][\A j \in DOMAIN job :
            job'[j] # job[j] => \E w \in Holders(j) : wjob'[w] = j]_vars
    /\ [](\A j \in DOMAIN job :
            /\ job[j].Error \in {NoError, ExpectedError(j)}
            /\ job[j].Status \in Terminal =>
                 (job[j].Status = JobStatusFailed <=> ExpectedError(j) # NoError))

\* One worker has failed a job with a bad duration and then completed a math
\* job, both stored, and waits in its loop; nothing is cancelled.
C20_Witness ==
    /\ numWorkers = 1 /\ ~ctxDone /\ ~quit
    /\ DOMAIN job = {1, 2}
    /\ job[1].Status = JobStatusFailed /\ job[1].Error = ErrDuration("bad")
    /\ job[2].Status = JobStatusCompleted /\ job[2].Result = MathJobResult(6)
    /\ GetJob(job[1].UID).exists /\ GetJob(job[2].UID).exists
    /\ wpc[1] = "parked" /\ spc = "parked"

\* ------------------------------------------------------------------ C21
\* The request names a kind that is not sleep or math (an empty type
\* parameter counting as no kind), or a status that is the empty string or
\* not one of the four statuses.
BadQuery(query) ==
    \/ query.type \notin {Absent, "", "sleep", "math"}
    \/ query.status # Absent /\ ~IsValidJobStatus(query.status)

\* C21: a list request with a kind that is not sleep or math, or with a status
\* that is empty or not pending/running/completed/failed, is answered with an
\* error and GetAllJobs is not called; every other request goes on to
\* GetAllJobs.
C21_BadFilterRejected ==
    [][ListParse =>
         IF BadQuery(req.query)
         THEN req'.pc = "rejected" /\ req'.err # NoError
         ELSE req'.pc = "list" /\ req'.err = NoError]_vars

\* ------------------------------------------------------------------ C22
\* The timestamps of a job agree with its status.
StampsMatchStatus(j) ==
    /\ job[j].StartedAt = Stamped
         => job[j].Status \in {JobStatusRunning} \cup Terminal
    /\ job[j].CompletedAt = Stamped => job[j].Status \in Terminal

\* C22: every job in the store has StartedAt set only when its status is
\* running, completed or failed, and CompletedAt set only when its status is
\* completed or failed; StartedAt is stamped on a job that has no StartedAt,
\* and CompletedAt on a job that has StartedAt and no CompletedAt.
C22_StampsMatchStatus ==
    /\ [](\A j \in Stored : StampsMatchStatus(j))
    /\ [][\A w \in WorkerIds :
            /\ ProcStartedAt(w) => job[wjob[w]].StartedAt = NilTime
            /\ ProcCompletedAt(w) =>
                  /\ job[wjob[w]].StartedAt = Stamped
                  /\ job[wjob[w]].CompletedAt = NilTime]_vars

\* ------------------------------------------------------------------ C23
\* A worker goroutine or the result processor is still running.
GoroutineRunning ==
    \/ \E w \in WorkerIds : wpc[w] \notin {"off", "exited"}
    \/ spc \notin {"off", "exited"}

\* C23: while the job queue or the result queue is closed no worker and no
\* result processor is running, and no step of a worker's receive from the
\* job queue, of a worker's send on the result queue or of the result
\* processor's receive is taken on a closed queue.
C23_CloseAfterExit ==
    /\ [](jobQueueClosed \/ resultQueueClosed => ~GoroutineRunning)
    /\ [][/\ (\E w \in WorkerIds : WorkerSelect(w)) => ~jobQueueClosed
          /\ (\E w \in WorkerIds : ProcSend(w) \/ SendPark(w))
                => ~resultQueueClosed
          /\ SinkSelect => ~resultQueueClosed]_vars

\* Stop() has closed both queues of a started pool that it cancelled while a
\* job was asleep.
C23_Witness ==
    /\ started
    /\ stopPc = "done"
    /\ jobQueueClosed /\ resultQueueClosed
    /\ cancelledMidSleep # {}

\* ------------------------------------------------------------------ C24
\* Worker w returns from processJob.
ProcReturn(w) == wjob[w] # NoJob /\ wjob'[w] = NoJob

\* The job of worker w is on its way to the result processor after the step.
Forwarded(w) ==
    \/ \E i \in 1..Len(resultQueue') : resultQueue'[i] = wjob[w]
    \/ spc' = "store" /\ sjob' = wjob[w]

\* Job j is in the result queue's buffer.
InResultQueue(j) == \E i \in 1..Len(resultQueue) : resultQueue[i] = j

\* C24: a worker returns from processJob only with its job sent to the
\* result processor, and every job in the result queue is eventually
\* received by the result processor, which stores it.
C24_FinishedReachSink ==
    /\ [][\A w \in WorkerIds : ProcReturn(w) => Forwarded(w)]_vars
    /\ \A j \in JobIds : InResultQueue(j) ~> (spc = "store" /\ sjob = j)

\* ------------------------------------------------------------------ C25
\* GetJob and GetAllJobs show job j with a terminal status, a result or an
\* error.
FinalObservable(j) ==
    /\ j \in Stored
    /\ \/ job[j].Status \in Terminal
       \/ job[j].Result # NilResult
       \/ job[j].Error # NoError

\* C25: the terminal status, the result and the error of a job start to show
\* in the store only in the step in which the result processor stores that
\* job.
C25_FinalOnlyBySink ==
    [][\A j \in JobIds :
         ~FinalObservable(j) /\ FinalObservable(j)' => SinkStore /\ sjob = j]_vars

\* ------------------------------------------------------------------ C26
\* C26: at most one storeJob is inside p.jobsMutex, and while one is, no
\* GetJob and no GetAllJobs is; readers are inside together only with no
\* storeJob inside.
C26_ReaderWriterExclusion ==
    /\ Cardinality(mu.writers) <= 1
    /\ mu.writers # {} => mu.readers = {}
    /\ mu.readers = { r \in ReaderIds : rd[r].pc = "in" }
    /\ mu.blocked = { r \in ReaderIds : rd[r].pc = "blocked" }

\* A storeJob holds the lock while another storeJob waits in Lock() and a
\* reader is blocked in RLock().
C26_Witness ==
    /\ mu.writers # {}
    /\ mu.waiting # {}
    /\ \E r \in ReaderIds : rd[r].pc = "blocked"

\* ------------------------------------------------------------------ C27
\* The step changes the map or a field of a job the map holds.
StoreStateChanges ==
    \/ jobs' # jobs
    \/ \E j \in Stored : job'[j] # job[j]

\* A GetAllJobs call is inside the read lock, in its loop over the map.
ListInside == \E r \in ReaderIds : rd[r].pc = "in" /\ rd[r].op = "list"

\* C27: the map and the fields of the jobs it holds change only in a step
\* of a goroutine that holds the write lock, and never while a GetAllJobs
\* call is inside its read lock.
C27_WritesUnderLock ==
    [][StoreStateChanges => mu.writers # {} /\ ~ListInside]_vars

\* ------------------------------------------------------------------ C28
\* No call of SubmitJob, GetJob or GetAllJobs is in progress, and every
\* worker and the result processor is parked in its loop's select, not
\* started, or has returned.
AllIdle ==
    /\ \A j \in DOMAIN sub : sub[j].pc # "sent"
    /\ \A r \in ReaderIds : rd[r].pc = "idle"
    /\ \A w \in WorkerIds : wpc[w] \in {"off", "parked", "exited"}
    /\ spc \in {"off", "parked", "exited"}

\* C28: a goroutine that holds p.jobsMutex can take its next step, which
\* releases the lock or, in the loop of GetAllJobs, is one of the finitely
\* many turns before that, whatever the channels and timers are doing; and in
\* every state of the pool before Stop() a call in progress, a worker, a
\* timer or the result processor can take a step, or all of them are idle.
C28_NoDeadlock ==
    /\ \A t \in mu.writers : ENABLED StorePut(t)
    /\ \A r \in mu.readers : ENABLED (ReadVisit(r) \/ ReadReturn(r))
    /\ stopPc = "none" => (ENABLED LockInternal) \/ AllIdle

\* A storeJob holds the lock while another storeJob waits for it and a
\* worker is parked on a channel or a timer.
C28_Witness ==
    /\ mu.writers # {}
    /\ mu.waiting # {}
    /\ \E w \in WorkerIds : wpc[w] \in {"parked", "sleep_parked", "send_parked"}

\* ------------------------------------------------------------------ C29
\* The step is a SubmitJob call whose send case was taken with job j.
AcceptedNow(j) == j \notin DOMAIN sub /\ Accepted(j)'

\* C29: the job queue never holds more jobs than the capacity NewWorkerPool
\* gave it, no step changes that capacity, and with capacity 0 SubmitJob
\* sends a job only when a worker is parked in the receive.
C29_QueueWithinCapacity ==
    /\ [](Len(jobQueue) <= poolSize)
    /\ [][poolSize' = poolSize]_vars
    /\ [][\A j \in JobIds :
            AcceptedNow(j) /\ poolSize = 0 => ParkedWorkers # {}]_vars

\* A pool of capacity 0 has accepted a job.
C29_Witness == poolSize = 0 /\ \E j \in DOMAIN sub : Accepted(j)

\* ------------------------------------------------------------------ C30
\* A SubmitJob call, made with a caller's context that is done or not,
\* returns err.
SubmitReturns(callerDone, err) ==
    \E in \in JobInputs : Submit(in, callerDone) /\ sub'[nextId].err = err

\* The job queue cannot take a job: the buffer is full and no worker is
\* parked in the receive.
QueueFull == ~JobSendReady

\* C30 as stated: whenever the queue is full and the pool's context or the
\* caller's context is done, a SubmitJob call can return the queue-full
\* error and can return the cancellation error.
C30_AsStated ==
    nextId <= MaxJobs /\ QueueFull =>
        \A callerDone \in BOOLEAN :
            callerDone \/ ctxDone =>
                /\ ENABLED SubmitReturns(callerDone, ErrQueueFull)
                /\ ENABLED SubmitReturns(callerDone, ErrCanceled)

\* C30: a SubmitJob call made while the queue is full and the pool's
\* context or the caller's context is done returns the cancellation error.
C30_CancelWinsOverFull ==
    [][\A in \in JobInputs, callerDone \in BOOLEAN :
         Submit(in, callerDone) /\ QueueFull /\ (callerDone \/ ctxDone)
             => sub'[nextId].err = ErrCanceled]_vars

\* The second job was submitted to a full queue of capacity 1 under a
\* cancellation, and was refused with the cancellation error.
C30_Witness ==
    /\ poolSize = 1
    /\ jobQueue = << 1 >>
    /\ 2 \in DOMAIN sub
    /\ sub[2].err = ErrCanceled

\* ------------------------------------------------------------------ C31
\* The worker goroutines launched so far.
Launched == { w \in WorkerIds : wpc[w] # "off" }

\* C31: the first Start() launches workers 1..numWorkers and one result
\* processor; a second Start() brings them to 2 * numWorkers workers and two
\* result processors, adding numWorkers + 1 to p.wg; and once the
\* p.wg.Wait() of a Stop() called after both has returned, all of them have
\* left their loops.
C31_StartTwice ==
    /\ [][Start => /\ Launched' = 1..numWorkers
                   /\ spc' = "select"
                   /\ sink2'.pc = "off"
                   /\ wg' = numWorkers + 1]_vars
    /\ [][StartAgain => /\ Launched' = 1..(2 * numWorkers)
                        /\ spc # "off"
                        /\ sink2'.pc = "select"
                        /\ wg' = wg + numWorkers + 1]_vars
    /\ [](sink2.pc # "off" /\ StopPastWait =>
            /\ \A w \in 1..(2 * numWorkers) : wpc[w] = "exited"
            /\ spc = "exited"
            /\ sink2.pc = "exited")

\* Stop() has returned on a pool of one worker started twice: two workers
\* and two result processors have run and returned.
C31_Witness ==
    /\ numWorkers = 1
    /\ stopPc = "done"
    /\ wpc[1] = "exited" /\ wpc[2] = "exited"
    /\ spc = "exited" /\ sink2.pc = "exited"

\* ------------------------------------------------------------------ C32
\* Job j is a sleep job with a sleep payload whose duration is "bad", which
\* time.ParseDuration rejects.
BadDuration(j) ==
    /\ j \in DOMAIN job
    /\ job[j].Type = "sleep"
    /\ job[j].Payload = SleepJobPayload("bad")

BadDurationFailed(j) ==
    /\ BadDuration(j)
    /\ job[j].Status = JobStatusFailed
    /\ job[j].Error = ErrDuration("bad")
    /\ job[j].Result = NilResult

\* C32: a sleep job whose duration does not parse is never completed and
\* never has a result; the worker that runs it arms no timer and waits in
\* no select of executeJob; and once a worker has received it, it ends
\* failed with the invalid-duration error, cancellation or not.
C32_BadDurationFails ==
    /\ [](\A j \in JobIds : BadDuration(j) =>
            /\ job[j].Status # JobStatusCompleted
            /\ job[j].Error \in {NoError, ErrDuration("bad")}
            /\ job[j].Result = NilResult)
    /\ [](\A w \in WorkerIds : wjob[w] # NoJob /\ BadDuration(wjob[w]) =>
            /\ timer[w] = "off"
            /\ wpc[w] \notin {"sleep_select", "sleep_parked"})
    /\ \A j \in JobIds :
         (\E w \in WorkerIds : wjob[w] = j /\ BadDuration(j))
            ~> BadDurationFailed(j)

\* A sleep job with duration "bad" is in the store, failed with the
\* invalid-duration error, and its worker is back in its loop.
C32_Witness ==
    \E j \in DOMAIN job :
        /\ BadDurationFailed(j)
        /\ GetJob(job[j].UID).exists
        /\ \A w \in WorkerIds : wjob[w] # j

\* ------------------------------------------------------------------ C33
\* p.ctx is cancelled or p.quit is closed.
ShutdownSignalled == ctxDone \/ quit

\* Worker w is in its loop's select, polling or parked.
WorkerIdle(w) == wpc[w] \in {"select", "parked"}

\* C33: with p.ctx cancelled or p.quit closed no worker receives a job and
\* no job goes from pending to running, and a worker that is in its loop's
\* select then returns.
C33_NoDequeueAfterShutdown ==
    /\ [][\A w \in WorkerIds :
            wjob[w] = NoJob /\ wjob'[w] # NoJob => ~ShutdownSignalled]_vars
    /\ [][\A j \in DOMAIN job :
            job[j].Status = JobStatusPending
            /\ job'[j].Status = JobStatusRunning => ~ShutdownSignalled]_vars
    /\ \A w \in WorkerIds :
         (WorkerIdle(w) /\ ShutdownSignalled) ~> (wpc[w] = "exited")

\* ------------------------------------------------------------------ C34
\* The jobs whose status is running.
RunningJobs == { j \in DOMAIN job : job[j].Status = JobStatusRunning }

\* C34: in a pool on which Start() was called once, at most numWorkers jobs
\* have status running.
C34_RunningAtMostWorkers ==
    started => Cardinality(RunningJobs) <= numWorkers

\* A started pool of one worker runs the first job while the second, which
\* SubmitJob accepted, waits in the queue with status pending.
C34_Witness ==
    /\ started /\ numWorkers = 1
    /\ RunningJobs = {1}
    /\ jobQueue = << 2 >>
    /\ job[2].Status = JobStatusPending

\* ------------------------------------------------------------------ C35
\* Jobs i and j were both accepted, i before j: SubmitJob calls take their
\* select one after the other, and job ids follow the order of the calls.
AcceptedBefore(i, j) == i < j /\ Accepted(i) /\ Accepted(j)

\* C35: a worker's receive takes the job accepted before every job still
\* waiting in the queue; and in a pool of one worker a job is past pending
\* only if every job accepted before it is, and is completed or failed only
\* if every job accepted before it is.
C35_AcceptanceOrder ==
    /\ [][\A w \in WorkerIds :
            wjob[w] = NoJob /\ wjob'[w] # NoJob =>
                \A i \in 1..Len(jobQueue') : wjob'[w] < jobQueue'[i]]_vars
    /\ [](numWorkers = 1 =>
            \A i, j \in JobIds : AcceptedBefore(i, j) =>
                /\ job[j].Status # JobStatusPending
                      => job[i].Status # JobStatusPending
                /\ job[j].Status \in Terminal => job[i].Status \in Terminal)

\* Two jobs were waiting in the queue of a one-worker pool together; the
\* first has ended and the second is running.
C35_Witness ==
    /\ numWorkers = 1
    /\ AcceptedBefore(1, 2)
    /\ job[1].Status \in Terminal
    /\ job[2].Status = JobStatusRunning

\* ------------------------------------------------------------------ C36
\* C36: no step removes a key from p.jobs or changes the job a key maps to,
\* so a GetJob that found a job finds the same job in every later state;
\* every key maps to the job that has this UID; and p.jobs never has more
\* entries than SubmitJob calls have sent jobs.
C36_StoreOnlyGrows ==
    /\ [][\A k \in DOMAIN jobs :
            /\ GetJob(k).exists'
            /\ GetJob(k).job' = GetJob(k).job]_vars
    /\ [](\A k \in DOMAIN jobs : job[jobs[k]].UID = k)
    /\ [](Cardinality(DOMAIN jobs)
            <= Cardinality({ j \in DOMAIN sub : Accepted(j) }))

\* The store holds two jobs, the second added after the first.
C36_Witness ==
    /\ Cardinality(DOMAIN jobs) = 2
    /\ \A j \in DOMAIN job : GetJob(job[j].UID).job = j

\* ------------------------------------------------------------------ C37
\* Stop() has returned.
Stopped == stopPc = "done"

\* C37: once Stop() has returned no step changes p.jobs or a field of a job
\* it holds, so GetJob and GetAllJobs answer the same from then on and a job
\* left in the queue stays pending.
C37_FrozenAfterStop ==
    [][Stopped =>
         /\ jobs' = jobs
         /\ \A j \in Stored : job'[j] = job[j]
         /\ \A ft \in {""} \cup FilterTypes, fs \in {""} \cup FilterStatuses :
              GetAllJobs(ft, fs)' = GetAllJobs(ft, fs)]_vars

====
